---- MODULE Spec2Model ----
(***************************************************************************)
(* Association constraint engine of jwst.associations:                     *)
(*   lib/constraint.py  AttrConstraint, SimpleConstraint, ConstraintTrue,  *)
(*                      Constraint (ALL/ANY trees), meets_conditions       *)
(*   association.py     Association.create / add /                         *)
(*                      check_and_set_constraints                          *)
(*   lib/dms_base.py    DMSBaseMixin.create / is_member / new_product      *)
(*                                                                         *)
(* Strings are sequences of one-character strings, so that re.escape, the  *)
(* anchoring and the case folding of meets_conditions are computed.        *)
(***************************************************************************)
EXTENDS Integers, Sequences, FiniteSets, TLC

\* ------------------------------------------------------------------
\* Bounds
\* ------------------------------------------------------------------
MaxMembers ==
  2

MaxSequence ==
  3

MaxChildren ==
  2

MaxChecks ==
  2

MaxValueLen ==
  2

MaxQueue ==
  6

\* ------------------------------------------------------------------
\* Characters and strings
\* ------------------------------------------------------------------
BSL ==
  "\\"

NL ==
  "\n"

\* Python's None, kept apart from every string (strings hold 1-char entries).
None ==
  << "None" >>

\* The value False returned in place of a constraint or association.
NoMatch ==
  [type |-> "false"]

\* str.lower() on the characters the model uses.
Lower(c) ==
  CASE c = "A" -> "a"
    [] c = "B" -> "b"
    [] OTHER -> c

IsAlnum(c) ==
  c \in {"a", "b", "A", "B"}

\* re.escape left out: the matched value is used as a pattern as it is.
Escape_none(s) ==
  s

\* re.escape: every non-alphanumeric character gets a backslash.
RECURSIVE Escape(_)
Escape(s) ==
  IF s = << >> THEN << >>
  ELSE (IF IsAlnum(Head(s)) THEN << Head(s) >> ELSE << BSL, Head(s) >>)
         \o Escape(Tail(s))

\* ------------------------------------------------------------------
\* Regular expressions: branches separated by '|', each a sequence of
\* atoms (literal, escaped literal, '.').
\* ------------------------------------------------------------------
\* Tokens of a pattern: [k |-> "lit", c |-> ch], [k |-> "any"], [k |-> "bar"]
RECURSIVE Tokens(_)
Tokens(p) ==
  IF p = << >> THEN << >>
  ELSE IF Head(p) = BSL /\ Len(p) >= 2
       THEN << [k |-> "lit", c |-> p[2]] >> \o Tokens(Tail(Tail(p)))
  ELSE IF Head(p) = "."
       THEN << [k |-> "any", c |-> "."] >> \o Tokens(Tail(p))
  ELSE IF Head(p) = "|"
       THEN << [k |-> "bar", c |-> "|"] >> \o Tokens(Tail(p))
  ELSE << [k |-> "lit", c |-> Head(p)] >> \o Tokens(Tail(p))

\* Split a token sequence into its alternation branches.
RECURSIVE Branches(_)
Branches(toks) ==
  IF \A i \in 1..Len(toks) : toks[i].k # "bar" THEN << toks >>
  ELSE LET i == CHOOSE j \in 1..Len(toks) :
                  toks[j].k = "bar" /\ \A h \in 1..(j - 1) : toks[h].k # "bar"
       IN << SubSeq(toks, 1, i - 1) >> \o Branches(SubSeq(toks, i + 1, Len(toks)))

\* One atom against one character, re.IGNORECASE; '.' excludes newline.
AtomMatches(tok, ch) ==
  IF tok.k = "any" THEN ch # NL ELSE Lower(tok.c) = Lower(ch)

\* A branch matches a prefix of the value (re.match anchors at the start).
BranchMatchesPrefix(br, v) ==
  /\ Len(br) <= Len(v)
  /\ \A i \in 1..Len(br) : AtomMatches(br[i], v[i])

\* '$' holds at the end of the value or just before a final newline.
AtEnd(n, v) ==
  \/ n = Len(v)
  \/ n = Len(v) - 1 /\ v[Len(v)] = NL

\* re.match('^' + condition + '$', value, flags=re.IGNORECASE)
ReMatchAnchored(condition, value) ==
  LET AnyBranch(brs) ==
        \E i \in 1..Len(brs) :
           /\ BranchMatchesPrefix(brs[i], value)
           /\ (i = Len(brs) => AtEnd(Len(brs[i]), value))
  IN AnyBranch(Branches(Tokens(condition)))

\* meets_conditions(value, conditions), conditions a single regex string.
meets_conditions(value, conditions) ==
  ReMatchAnchored(conditions, value)

\* ------------------------------------------------------------------
\* ProcessList and items
\* ------------------------------------------------------------------
BOTH ==
  1

EXISTING ==
  2

RULES ==
  3

\* ProcessList(items, rules, work_over, only_on_match)
ProcessList(items, rules, work_over, only_on_match) ==
  [items |-> items, rules |-> rules, work_over |-> work_over,
   only_on_match |-> only_on_match]

\* body(value), the value computed once and then named.
With(value, body(_)) ==
  CHOOSE result \in { body(v) : v \in { value } } : TRUE

\* item[attr] = value on a copy of the item (deepcopy, then assignment).
ItemWith(item, attr, value) ==
  [a \in (DOMAIN item) \cup {attr} |-> IF a = attr THEN value ELSE item[a]]

\* getattr_from_list(item, attributes, invalid_values): the first attribute
\* present with a valid value, as [found, source, value].
RECURSIVE getattr_from_list(_, _, _)
getattr_from_list(item, attributes, invalid_values) ==
  IF attributes = << >> THEN [found |-> FALSE, source |-> "", value |-> None]
  ELSE LET attribute == Head(attributes)
       IN IF attribute \in DOMAIN item /\ item[attribute] \notin invalid_values
          THEN [found |-> TRUE, source |-> attribute, value |-> item[attribute]]
          ELSE getattr_from_list(item, Tail(attributes), invalid_values)

\* ------------------------------------------------------------------
\* evaluate(value) / is_iterable: a value written as a list literal
\* ['x','y',...] is a list; a quoted scalar loses its quotes; anything else
\* fails literal_eval and is kept as it is.
\* ------------------------------------------------------------------
QT ==
  "'"

DQ ==
  "\""

\* Elements of the body of a list literal ('x',"y"), as [ok, elems]: each
\* element runs from its opening quote to the next quote of the same kind.
RECURSIVE ParseElems(_)
ParseElems(s) ==
  LET bad == [ok |-> FALSE, elems |-> << >>]
  IN IF Len(s) < 2 \/ Head(s) \notin {QT, DQ} THEN bad
     ELSE LET q == Head(s)
              rest == Tail(s)
              closeAt == IF \E j \in 1..Len(rest) : rest[j] = q
                         THEN CHOOSE j \in 1..Len(rest) :
                                rest[j] = q /\ \A h \in 1..(j - 1) : rest[h] # q
                         ELSE 0
          IN IF closeAt = 0 THEN bad
             ELSE LET elem == SubSeq(rest, 1, closeAt - 1)
                      after == SubSeq(rest, closeAt + 1, Len(rest))
                  IN IF after = << >> THEN [ok |-> TRUE, elems |-> << elem >>]
                     ELSE IF Head(after) # "," THEN bad
                     ELSE LET more == ParseElems(Tail(after))
                          IN IF ~more.ok THEN bad
                             ELSE [ok |-> TRUE, elems |-> << elem >> \o more.elems]

\* evaluate(value) with is_iterable(evaled) and str(evaled):
\* [iterable, values (the list), value (str(evaled) of a scalar)]
evaluate(value) ==
  LET AsList(parsed) ==
        IF parsed.ok
        THEN [iterable |-> TRUE, values |-> parsed.elems, value |-> value]
        ELSE [iterable |-> FALSE, values |-> << >>, value |-> value]
  IN IF Len(value) >= 2 /\ value[1] = "[" /\ value[Len(value)] = "]"
     THEN IF Len(value) = 2 THEN AsList([ok |-> TRUE, elems |-> << >>])
          ELSE AsList(ParseElems(SubSeq(value, 2, Len(value) - 1)))
     ELSE IF Len(value) >= 2 /\ value[1] \in {QT, DQ} /\ value[Len(value)] = value[1]
             /\ \A j \in 2..(Len(value) - 1) : value[j] # value[1]
     THEN [iterable |-> FALSE, values |-> << >>,
           value |-> SubSeq(value, 2, Len(value) - 1)]
     ELSE [iterable |-> FALSE, values |-> << >>, value |-> value]

\* ------------------------------------------------------------------
\* Leaf constraints
\* ------------------------------------------------------------------
\* Result of a check_and_set call: (match, reprocess), or an exception.
Result(match, reprocess) ==
  [match |-> match, reprocess |-> reprocess, raised |-> "none"]

Raised(exc) ==
  [match |-> NoMatch, reprocess |-> << >>, raised |-> exc]

\* ConstraintTrue()
ConstraintTrue ==
  [type |-> "true", name |-> None]

\* AttrConstraint(...) with the defaults of __init__
AttrConstraint(name, sources, value, force_unique, required) ==
  [type |-> "attr", name |-> name, sources |-> sources, value |-> value,
   evaluate |-> FALSE, force_reprocess |-> 0, force_undefined |-> FALSE,
   force_unique |-> force_unique, invalid_values |-> {},
   only_on_match |-> FALSE, onlyif |-> "always", required |-> required,
   found_values |-> {}]

\* The onlyif callbacks rules use: the default (always true) and one that
\* is false for every item.
OnlyIf(id, item) ==
  id = "always"

\* ConstraintTrue.check_and_set / SimpleConstraintABC.check_and_set
True_check_and_set(c, item) ==
  Result(c, << >>)

\* AttrFix that leaves force_unique set, so every later match locks again.
AttrFix_relock(match, source, value) ==
  LET Fix(escaped_value) ==
        IF match.force_unique
        THEN [match EXCEPT !.found_values = @ \cup {escaped_value},
                           !.value = escaped_value, !.sources = << source >>]
        ELSE [match EXCEPT !.found_values = @ \cup {escaped_value}]
  IN Fix(Escape(value))

\* AttrFix that keeps only the latest found value.
AttrFix_replace(match, source, value) ==
  LET Fix(escaped_value) ==
        IF match.force_unique
        THEN [match EXCEPT !.found_values = {escaped_value},
                           !.value = escaped_value, !.sources = << source >>,
                           !.force_unique = FALSE]
        ELSE [match EXCEPT !.found_values = {escaped_value}]
  IN Fix(Escape(value))

\* AttrFix that also locks a constraint whose value is still unset.
AttrFix_lock_unset(match, source, value) ==
  LET Fix(escaped_value) ==
        IF match.force_unique \/ match.value = None
        THEN [match EXCEPT !.found_values = @ \cup {escaped_value},
                           !.value = escaped_value, !.sources = << source >>,
                           !.force_unique = FALSE]
        ELSE [match EXCEPT !.found_values = @ \cup {escaped_value}]
  IN Fix(Escape(value))

\* The final part of AttrConstraint.check_and_set: the constraint passed.
AttrFix(match, source, value) ==
  LET Fix(escaped_value) ==
        IF match.force_unique
        THEN [match EXCEPT !.found_values = @ \cup {escaped_value},
                           !.value = escaped_value, !.sources = << source >>,
                           !.force_unique = FALSE]
        ELSE [match EXCEPT !.found_values = @ \cup {escaped_value}]
  IN Fix(Escape(value))

\* The loop over the values with the assignment to the copy left out.
Expand_in_place(item, source, values) ==
  [k \in 1..Len(values) |-> item]

\* AttrConstraint.check_and_set, the loop over the values of a list: one
\* copy of the item per value, the source attribute set to str(avalue).
Expand(item, source, values) ==
  [k \in 1..Len(values) |-> ItemWith(item, source, values[k])]

\* The handling of a missing value with force_undefined forgotten.
Missing_required_only(match) ==
  IF match.required THEN Result(NoMatch, << >>) ELSE Result(match, << >>)

\* AttrConstraint.check_and_set, the except KeyError branch: no source of
\* the constraint holds a valid value.
Missing(match) ==
  IF match.required /\ ~match.force_undefined
  THEN Result(NoMatch, << >>)
  ELSE Result(match, << >>)

\* The branch taken when onlyif(item) is false, with force_reprocess
\* left out of account.
NotApplicable_without_reprocess(match, item) ==
  Result(match, << >>)

\* AttrConstraint.check_and_set, the branch taken when onlyif(item) is
\* false: the copy is returned, with the item to reprocess if
\* force_reprocess is set.
NotApplicable(match, item) ==
  Result(match,
         IF match.force_reprocess # 0
         THEN << ProcessList(<< item >>, None, match.force_reprocess,
                             match.only_on_match) >>
         ELSE << >>)

\* The else branch of the try with force_undefined not looked at.
FoundUndefined_ignored(match) ==
  FALSE

\* AttrConstraint.check_and_set, the else branch of the try: a value was
\* found although the constraint wants the attribute undefined.
FoundUndefined(match) ==
  match.force_undefined

\* AttrConstraint.check_and_set(item)
Attr_check_and_set(c, item) ==
  LET Checked(match, source, value) ==
        IF match.value # None /\ ~meets_conditions(value, match.value)
        THEN Result(NoMatch, << >>)
        ELSE Result(AttrFix(match, source, value), << >>)
      Evaluated(match, source, evaled) ==
        IF evaled.iterable
        THEN Result(NoMatch,
               << ProcessList(Expand(item, source, evaled.values),
                              None, BOTH, FALSE) >>)
        ELSE Checked(match, source, evaled.value)
      Got(match, got) ==
        IF ~got.found THEN Missing(match)
        ELSE IF FoundUndefined(match) THEN Result(NoMatch, << >>)
        ELSE IF match.evaluate
        THEN With(evaluate(got.value),
                  LAMBDA evaled : Evaluated(match, got.source, evaled))
        ELSE Checked(match, got.source, got.value)
      Copied(match) ==
        IF ~OnlyIf(match.onlyif, item)
        THEN NotApplicable(match, item)
        ELSE With(getattr_from_list(item, match.sources, match.invalid_values),
                  LAMBDA got : Got(match, got))
  IN Copied(c)

\* SimpleConstraint(value, force_unique, force_reprocess): sources is the
\* default (the item itself), test the default SimpleConstraint.eq.
NoneObj ==
  [None |-> "None"]

SimpleConstraint(name, value, force_unique, force_reprocess) ==
  [type |-> "simple", name |-> name, value |-> value, test |-> "eq",
   force_unique |-> force_unique, force_reprocess |-> force_reprocess]

\* A comparison that holds for any two values.
eq_always(value1, value2) ==
  TRUE

\* SimpleConstraint.eq
eq(value1, value2) ==
  value1 = value2

\* A test function a rule may pass instead: the two rows are of the same
\* instrument.
same_instrument(value1, value2) ==
  value1.instrument = value2.instrument

\* self.test(self.value, source_value)
Test(c, source_value) ==
  IF c.test = "eq" THEN eq(c.value, source_value)
  ELSE same_instrument(c.value, source_value)

\* SimpleConstraint.check_and_set(item)
Simple_check_and_set(c, item) ==
  LET Checked(source_value, satisfied) ==
        Result(IF satisfied
               THEN (IF c.force_unique THEN [c EXCEPT !.value = source_value] ELSE c)
               ELSE NoMatch,
               IF c.force_reprocess # 0
               THEN << ProcessList(<< item >>, << >>, c.force_reprocess, FALSE) >>
               ELSE << >>)
  IN Checked(item, IF c.value # NoneObj THEN Test(c, item) ELSE TRUE)

\* ------------------------------------------------------------------
\* Constraint trees
\* ------------------------------------------------------------------
\* Constraint(init=[children], reduce, name, work_over)
Constraint(children, reduce, name, work_over) ==
  [type |-> "tree", reduce |-> reduce, name |-> name, work_over |-> work_over,
   constraints |-> children]

\* A constraint object or an association is truthy, False is not.
Truthy(match) ==
  match # NoMatch

\* chain(*lists) as a list
RECURSIVE Chain(_)
Chain(lists) ==
  IF lists = << >> THEN << >> ELSE Head(lists) \o Chain(Tail(lists))

\* The loop of Constraint.all gathering the reprocess lists of all failing
\* children instead of keeping the first.
RECURSIVE AllLoop_union(_, _, _)
AllLoop_union(results, i, st) ==
  IF i > Len(results) THEN st
  ELSE LET match == results[i].match
           reprocess == results[i].reprocess
       IN IF Truthy(match)
          THEN AllLoop_union(results, i + 1,
                 IF st.all_match
                 THEN [st EXCEPT !.constraints = Append(@, match),
                                 !.to_reprocess = Append(@, reprocess)]
                 ELSE st)
          ELSE IF Len(reprocess) = 0
               THEN [st EXCEPT !.all_match = FALSE, !.has_negative = FALSE,
                               !.negative_reprocess = << >>]
               ELSE AllLoop_union(results, i + 1,
                      [st EXCEPT !.all_match = FALSE, !.has_negative = TRUE,
                                 !.negative_reprocess = Append(@, reprocess)])

\* The loop of Constraint.all that, at a failing child without reprocess
\* list, stops but keeps the reprocess list noted before.
RECURSIVE AllLoop_keeps_noted(_, _, _)
AllLoop_keeps_noted(results, i, st) ==
  IF i > Len(results) THEN st
  ELSE LET match == results[i].match
           reprocess == results[i].reprocess
       IN IF Truthy(match)
          THEN AllLoop_keeps_noted(results, i + 1,
                 IF st.all_match
                 THEN [st EXCEPT !.constraints = Append(@, match),
                                 !.to_reprocess = Append(@, reprocess)]
                 ELSE st)
          ELSE IF Len(reprocess) = 0
               THEN [st EXCEPT !.all_match = FALSE]
               ELSE AllLoop_keeps_noted(results, i + 1,
                      IF ~st.has_negative
                      THEN [st EXCEPT !.all_match = FALSE, !.has_negative = TRUE,
                                      !.negative_reprocess = << reprocess >>]
                      ELSE [st EXCEPT !.all_match = FALSE])

\* The loop of Constraint.all over results[i..]; st holds the loop's locals
\* all_match, constraints, negative_reprocess (has_negative says it is not
\* None), to_reprocess.
RECURSIVE AllLoop(_, _, _)
AllLoop(results, i, st) ==
  IF i > Len(results) THEN st
  ELSE LET match == results[i].match
           reprocess == results[i].reprocess
       IN IF Truthy(match)
          THEN AllLoop(results, i + 1,
                 IF st.all_match
                 THEN [st EXCEPT !.constraints = Append(@, match),
                                 !.to_reprocess = Append(@, reprocess)]
                 ELSE st)
          ELSE IF Len(reprocess) = 0
               THEN [st EXCEPT !.all_match = FALSE, !.has_negative = FALSE,
                               !.negative_reprocess = << >>]
               ELSE AllLoop(results, i + 1,
                      IF ~st.has_negative
                      THEN [st EXCEPT !.all_match = FALSE, !.has_negative = TRUE,
                                      !.negative_reprocess = << reprocess >>]
                      ELSE [st EXCEPT !.all_match = FALSE])

\* Constraint.all that stops looking at the results after the first one.
all_first_only(results) ==
  IF results = << >>
  THEN [ok |-> FALSE, constraints |-> << >>, reprocess |-> << >>, raised |-> "none"]
  ELSE IF Truthy(results[1].match)
  THEN [ok |-> TRUE, constraints |-> << results[1].match >>,
        reprocess |-> << results[1].reprocess >>, raised |-> "none"]
  ELSE [ok |-> FALSE, constraints |-> << >>,
        reprocess |-> IF results[1].reprocess = << >> THEN << >>
                      ELSE << results[1].reprocess >>,
        raised |-> "none"]

\* Constraint.all(results): [ok (constraints is truthy), constraints, reprocess]
all(results) ==
  LET Reduced(st) ==
        IF st.all_match
        THEN [ok |-> st.constraints # << >>, constraints |-> st.constraints,
              reprocess |-> st.to_reprocess, raised |-> "none"]
        ELSE [ok |-> FALSE, constraints |-> << >>,
              reprocess |-> IF st.has_negative THEN st.negative_reprocess ELSE << >>,
              raised |-> "none"]
  IN With(AllLoop(results, 1,
                  [all_match |-> TRUE, constraints |-> << >>,
                   has_negative |-> FALSE, negative_reprocess |-> << >>,
                   to_reprocess |-> << >>]), Reduced)

\* Constraint.any that drops the reprocess lists when no child matched.
any_drops_reprocess(results) ==
  IF results = << >>
  THEN [ok |-> FALSE, constraints |-> << >>, reprocess |-> << >>,
        raised |-> "ValueError"]
  ELSE LET constraints == [i \in 1..Len(results) |-> results[i].match]
           reprocess == [i \in 1..Len(results) |-> results[i].reprocess]
       IN IF \E i \in 1..Len(results) : Truthy(constraints[i])
          THEN [ok |-> TRUE, constraints |-> constraints, reprocess |-> reprocess,
                raised |-> "none"]
          ELSE [ok |-> FALSE, constraints |-> << >>, reprocess |-> << >>,
                raised |-> "none"]

\* Constraint.any(results); zip(*results) of no results cannot be unpacked.
any(results) ==
  IF results = << >>
  THEN [ok |-> FALSE, constraints |-> << >>, reprocess |-> << >>,
        raised |-> "ValueError"]
  ELSE LET constraints == [i \in 1..Len(results) |-> results[i].match]
           reprocess == [i \in 1..Len(results) |-> results[i].reprocess]
       IN IF \E i \in 1..Len(results) : Truthy(constraints[i])
          THEN [ok |-> TRUE, constraints |-> constraints, reprocess |-> reprocess,
                raised |-> "none"]
          ELSE [ok |-> FALSE, constraints |-> << >>, reprocess |-> reprocess,
                raised |-> "none"]

Reduce(reduce, results) ==
  IF reduce = "all" THEN all(results) ELSE any(results)

\* Constraint(self) with the positive constraints put in place.
NewConstraint(self, constraints) ==
  [self EXCEPT !.constraints =
     [idx \in 1..Len(self.constraints) |->
        IF idx <= Len(constraints) /\ Truthy(constraints[idx])
        THEN constraints[idx] ELSE self.constraints[idx]]]

\* A scope filter that lets every call through.
ScopeAdmits_always(c, work_over) ==
  TRUE

\* The scope filter of Constraint.check_and_set: the call goes on only for
\* the tree's own work_over or for BOTH.
ScopeAdmits(c, work_over) ==
  work_over \in {c.work_over, BOTH}

RECURSIVE check_and_set(_, _, _)

\* The comprehension over the children that gives up at the first child
\* that did not match.
RECURSIVE CallChildren_short_circuit(_, _, _)
CallChildren_short_circuit(constraints, item, i) ==
  IF i > Len(constraints) THEN << >>
  ELSE LET Called(r) ==
             << [child |-> i, result |-> r] >>
               \o (IF r.raised # "none" \/ ~Truthy(r.match) THEN << >>
                   ELSE CallChildren_short_circuit(constraints, item, i + 1))
       IN With(check_and_set(constraints[i], item, BOTH), Called)

\* [constraint.check_and_set(item) for constraint in self.constraints] from
\* child i on: one call per child, in order, each with the default scope; an
\* exception raised by a child ends the comprehension.
RECURSIVE CallChildren(_, _, _)
CallChildren(constraints, item, i) ==
  IF i > Len(constraints) THEN << >>
  ELSE LET Called(r) ==
             << [child |-> i, result |-> r] >>
               \o (IF r.raised # "none" THEN << >>
                   ELSE CallChildren(constraints, item, i + 1))
       IN With(check_and_set(constraints[i], item, BOTH), Called)

\* check_and_set of any constraint; leaves ignore work_over.
check_and_set(c, item, work_over) ==
  LET Reduced(red) ==
        IF red.raised # "none" THEN Raised(red.raised)
        ELSE Result(IF red.ok THEN NewConstraint(c, red.constraints) ELSE NoMatch,
                    Chain(red.reprocess))
      Checked(results) ==
        IF \E i \in 1..Len(results) : results[i].raised # "none"
        THEN Raised(results[CHOOSE i \in 1..Len(results) :
                              /\ results[i].raised # "none"
                              /\ \A h \in 1..(i - 1) : results[h].raised = "none"
                           ].raised)
        ELSE With(Reduce(c.reduce, results), Reduced)
      Collected(calls) ==
        With([k \in 1..Len(calls) |-> calls[k].result], Checked)
  IN IF c.type = "true" THEN True_check_and_set(c, item)
     ELSE IF c.type = "attr" THEN Attr_check_and_set(c, item)
     ELSE IF c.type = "simple" THEN Simple_check_and_set(c, item)
     ELSE IF ~ScopeAdmits(c, work_over) THEN Result(NoMatch, << >>)
     ELSE With(CallChildren(c.constraints, item, 1), Collected)

\* The children whose check_and_set one call of check_and_set on c invokes,
\* in the order of the calls.
Invoked(c, item, work_over) ==
  LET Children(calls) ==
        [k \in 1..Len(calls) |-> calls[k].child]
  IN IF c.type # "tree" \/ ~ScopeAdmits(c, work_over) THEN << >>
     ELSE Children(CallChildren(c.constraints, item, 1))

\* Constraint.__iter__: the leaves, depth first.
RECURSIVE Flatten(_)
Flatten(c) ==
  IF c.type # "tree" THEN << c >>
  ELSE Chain([i \in 1..Len(c.constraints) |-> Flatten(c.constraints[i])])

\* ------------------------------------------------------------------
\* Associations
\* ------------------------------------------------------------------
\* The value None returned in place of an association.
NoAsn ==
  [type |-> "None"]

\* Association.__init__ (with DMSBaseMixin.__init__ and the rule's own
\* __init__): rule.constraints is NoMatch when the rule defines none.
\* called lists the calls made on the rule's _init_hook and _add, in order.
NewAssociation(rule) ==
  [type |-> "asn",
   rule |-> rule.name,
   kind |-> rule.kind,
   run_init_hook |-> TRUE,
   constraints |->
     Constraint((IF Truthy(rule.constraints) THEN << rule.constraints >> ELSE << >>)
                  \o << ConstraintTrue >>,
                "all", None, BOTH),
   members |-> << >>,
   products |-> << >>,
   from_items |-> << >>,
   called |-> << >>,
   sequence |-> 0]

\* make_member(item) of the rule
make_member(item) ==
  item

\* DMSBaseMixin.is_member: data['products'] missing is the KeyError branch.
is_member(asn, new_member) ==
  IF asn.products = << >> THEN FALSE
  ELSE LET current_members == asn.products[Len(asn.products)].members
       IN \E i \in 1..Len(current_members) : current_members[i] = new_member

\* DMSBaseMixin.is_item_member
is_item_member(asn, item) ==
  is_member(asn, make_member(item))

\* DMSBaseMixin.new_product
new_product(asn) ==
  [asn EXCEPT !.products = Append(@, [name |-> "undefined", members |-> << >>])]

\* _init_hook of the level-3 rules: start the product.
Level3_init_hook(asn, item) ==
  new_product(asn)

\* _add of the level-3 rules: append the member to the current product.
Level3_add(asn, item) ==
  [asn EXCEPT !.products[Len(asn.products)].members = Append(@, make_member(item))]

\* Asn_DMS_Base._add: append to data['members'].
Base_add(asn, item) ==
  [asn EXCEPT !.members = Append(@, item)]

\* self._init_hook(item): Asn_DMS_Base inherits the empty hook.
init_hook(asn, item) ==
  [(IF asn.kind = "products" THEN Level3_init_hook(asn, item) ELSE asn)
     EXCEPT !.called = Append(@, "_init_hook")]

\* self._add(item)
add_member(asn, item) ==
  [(IF asn.kind = "products" THEN Level3_add(asn, item) ELSE Base_add(asn, item))
     EXCEPT !.called = Append(@, "_add")]

\* Association.check_and_set_constraints: [asn, match, reprocess, raised]
check_and_set_constraints(asn, item) ==
  LET Checked(r) ==
        [asn |-> IF Truthy(r.match) THEN [asn EXCEPT !.constraints = r.match]
                 ELSE asn,
         match |-> r.match,
         reprocess |-> [i \in 1..Len(r.reprocess) |->
                          ProcessList(<< r.reprocess[i] >>, << asn.rule >>, BOTH, FALSE)],
         raised |-> r.raised]
  IN With(check_and_set(asn.constraints, item, BOTH), Checked)

\* add that calls _add(item) whether or not the constraints matched.
add_always_appends(asn, item, check_constraints) ==
  LET Hooked(a) ==
        IF a.run_init_hook
        THEN [init_hook(a, item) EXCEPT !.run_init_hook = FALSE]
        ELSE a
      Checked(r) ==
        IF r.raised # "none" THEN r
        ELSE [r EXCEPT !.asn = add_member(Hooked(r.asn), item)]
  IN IF is_item_member(asn, item)
     THEN [asn |-> asn, match |-> NoMatch, reprocess |-> << >>, raised |-> "none"]
     ELSE IF ~check_constraints
     THEN [asn |-> asn, match |-> NoMatch, reprocess |-> << >>,
           raised |-> "UnboundLocalError"]
     ELSE With(check_and_set_constraints(asn, item), Checked)

\* add that runs the init hook on every successful add.
add_hook_every_add(asn, item, check_constraints) ==
  LET Hooked(a) ==
        [init_hook(a, item) EXCEPT !.run_init_hook = FALSE]
      Checked(r) ==
        IF r.raised # "none" \/ ~Truthy(r.match) THEN r
        ELSE [r EXCEPT !.asn = add_member(Hooked(r.asn), item)]
  IN IF is_item_member(asn, item)
     THEN [asn |-> asn, match |-> NoMatch, reprocess |-> << >>, raised |-> "none"]
     ELSE IF ~check_constraints
     THEN [asn |-> asn, match |-> NoMatch, reprocess |-> << >>,
           raised |-> "UnboundLocalError"]
     ELSE With(check_and_set_constraints(asn, item), Checked)

\* Association.add(item, check_constraints): [asn, match, reprocess, raised]
add(asn, item, check_constraints) ==
  LET Hooked(a) ==
        IF a.run_init_hook
        THEN [init_hook(a, item) EXCEPT !.run_init_hook = FALSE]
        ELSE a
      Checked(r) ==
        IF r.raised # "none" \/ ~Truthy(r.match) THEN r
        ELSE [r EXCEPT !.asn = add_member(Hooked(r.asn), item)]
  IN IF is_item_member(asn, item)
     THEN [asn |-> asn, match |-> NoMatch, reprocess |-> << >>, raised |-> "none"]
     ELSE IF ~check_constraints
     THEN [asn |-> asn, match |-> NoMatch, reprocess |-> << >>,
           raised |-> "UnboundLocalError"]
     ELSE With(check_and_set_constraints(asn, item), Checked)

\* All members of an association, whichever way the rule keeps them.
Members(asn) ==
  asn.members \o Chain([i \in 1..Len(asn.products) |-> asn.products[i].members])

\* create that takes the sequence number before it knows the item matched.
create_eager_sequence(rule, item, counter) ==
  LET Added(r) ==
        IF r.raised # "none"
        THEN [asn |-> NoAsn, reprocess |-> << >>, counter |-> counter,
              raised |-> r.raised]
        ELSE IF ~Truthy(r.match)
        THEN [asn |-> NoAsn, reprocess |-> r.reprocess, counter |-> counter + 1,
              raised |-> "none"]
        ELSE [asn |-> [r.asn EXCEPT !.sequence = counter + 1],
              reprocess |-> r.reprocess, counter |-> counter + 1, raised |-> "none"]
  IN With(add(NewAssociation(rule), item, TRUE), Added)

\* Association.create followed by DMSBaseMixin.create, counter being the
\* shared _sequence: [asn, reprocess, counter, raised]
create(rule, item, counter) ==
  LET Added(r) ==
        IF r.raised # "none"
        THEN [asn |-> NoAsn, reprocess |-> << >>, counter |-> counter,
              raised |-> r.raised]
        ELSE IF ~Truthy(r.match)
        THEN [asn |-> NoAsn, reprocess |-> r.reprocess, counter |-> counter,
              raised |-> "none"]
        ELSE [asn |-> [r.asn EXCEPT !.sequence = counter + 1],
              reprocess |-> r.reprocess, counter |-> counter + 1, raised |-> "none"]
  IN With(add(NewAssociation(rule), item, TRUE), Added)

\* ------------------------------------------------------------------
\* Pool items and rules offered to the engine
\* ------------------------------------------------------------------
\* The list literal ['a','b']
ListAB ==
  << "[", QT, "a", QT, ",", QT, "b", QT, "]" >>

\* The list literal ["['a']",'b'], whose first value reads as a list.
NestedList ==
  << "[", DQ, "[", QT, "a", QT, "]", DQ, ",", QT, "b", QT, "]" >>

InstrumentValues ==
  { << "a" >>, << "b" >> }

FilterValues ==
  { << "a" >>, << "A" >>, << "b" >>, ListAB }

\* Pool rows: every row has its attributes from a subset of the columns.
Items ==
  LET withBoth == { [instrument |-> i, filter |-> f] :
                      i \in InstrumentValues, f \in FilterValues }
      onlyI == { [instrument |-> i] : i \in InstrumentValues }
      onlyF == { [filter |-> f] : f \in FilterValues }
  IN withBoth \cup onlyI \cup onlyF

\* Asn_DMS_Base of tests/data/dms_rules.py: no constraints of its own.
Asn_DMS_Base ==
  [name |-> "Asn_DMS_Base", kind |-> "members", constraints |-> NoMatch]

\* Level-3 style rules: a constraint tree built in __init__.
\* instrument must be 'a'; filter locks on the first value seen.
Asn_Lock ==
  [name |-> "Asn_Lock", kind |-> "products",
   constraints |-> Constraint(
     << AttrConstraint(<< "instrument" >>, << "instrument" >>, << "a" >>, FALSE, TRUE),
        AttrConstraint(<< "filter" >>, << "filter" >>, None, TRUE, TRUE) >>,
     "all", None, BOTH)]

\* filter values are collected, none is locked.
Asn_Collect ==
  [name |-> "Asn_Collect", kind |-> "products",
   constraints |-> Constraint(
     << AttrConstraint(<< "filter" >>, << "filter" >>, None, FALSE, TRUE) >>,
     "all", None, BOTH)]

\* an optional constraint over two sources, locking once a value appears,
\* with the attribute evaluated first.
Asn_Optional ==
  [name |-> "Asn_Optional", kind |-> "products",
   constraints |-> Constraint(
     << [AttrConstraint(<< "opt" >>, << "filter", "instrument" >>, None, TRUE, FALSE)
           EXCEPT !.evaluate = TRUE] >>,
     "all", None, BOTH)]

\* either the instrument is 'b' or the filter is the locked one.
Asn_Any ==
  [name |-> "Asn_Any", kind |-> "products",
   constraints |-> Constraint(
     << AttrConstraint(<< "instrument" >>, << "instrument" >>, << "b" >>, TRUE, TRUE),
        AttrConstraint(<< "filter" >>, << "filter" >>, None, TRUE, TRUE) >>,
     "any", None, BOTH)]

Rules ==
  { Asn_DMS_Base, Asn_Lock, Asn_Collect, Asn_Optional, Asn_Any }

\* a rule for one particular row, which asks for every row it is shown to
\* be shown again to the existing associations.
Asn_Again ==
  [name |-> "Asn_Again", kind |-> "products",
   constraints |-> Constraint(
     << SimpleConstraint(<< "again" >>,
                         [instrument |-> << "a" >>, filter |-> << "a" >>],
                         FALSE, EXISTING) >>,
     "all", None, BOTH)]

RuleByName(name) ==
  CHOOSE r \in Rules \cup { Asn_Again } : r.name = name

\* ------------------------------------------------------------------
\* The association under construction: create, then add
\* ------------------------------------------------------------------
\* asn, sequence, last: one association being built (create, add).
\* ord: the same two items offered to one rule in both orders.
\* tr: one constraint tree and the result of check_and_set on it.
\* mt: one pattern and one value given to meets_conditions.
\* lf: one AttrConstraint and the result of check_and_set on it.
\* reg: one registry and the result of match on it.
\* wl: the worklist of the loop that drives a registry over a pool.
\* ix: one constraint tree and the result of indexing it by a name.
\* sc: one SimpleConstraint and the result of check_and_set on it.
\* hp: the constraint objects of two associations of one rule, by identity.
VARIABLES asn, sequence, last, ord, tr, mt, lf, reg, wl, ix, sc, hp

vars ==
  << asn, sequence, last, ord, tr, mt, lf, reg, wl, ix, sc, hp >>

\* The variables of the other specifications, at rest.
Off ==
  [pc |-> "off"]

NoLast ==
  [op |-> "none", rule |-> "", item |-> << >>, matched |-> FALSE,
   reprocess |-> << >>, raised |-> "none"]

NoOrd ==
  [pc |-> "off"]

NoTr ==
  [pc |-> "off"]

Init ==
  /\ asn = NoAsn
  /\ sequence = 0
  /\ ix = Off
  /\ sc = Off
  /\ hp = Off
  /\ last = NoLast
  /\ ord = NoOrd
  /\ tr = NoTr
  /\ mt = Off
  /\ lf = Off
  /\ reg = Off
  /\ wl = Off

\* asn, reprocess = rule.create(item)
Create(rule, item) ==
  /\ sequence < MaxSequence
  /\ \E r \in { create(rule, item, sequence) } :
        /\ asn' = r.asn
        /\ sequence' = r.counter
        /\ last' = [op |-> "create", rule |-> rule.name, item |-> item,
                    matched |-> r.asn # NoAsn, reprocess |-> r.reprocess,
                    raised |-> r.raised]
  /\ UNCHANGED << ord, tr, mt, lf, reg, wl, ix, sc, hp >>

\* matches, reprocess = asn.add(item)
Add(item) ==
  /\ asn # NoAsn
  /\ Len(Members(asn)) < MaxMembers
  /\ \E r \in { add(asn, item, TRUE) } :
        /\ asn' = r.asn
        /\ last' = [op |-> "add", rule |-> asn.rule, item |-> item,
                    matched |-> Truthy(r.match), reprocess |-> r.reprocess,
                    raised |-> r.raised]
  /\ UNCHANGED << sequence, ord, tr, mt, lf, reg, wl, ix, sc, hp >>

\* matches, reprocess = asn.add(item, check_constraints=False)
AddUnchecked(item) ==
  /\ asn # NoAsn
  /\ Len(Members(asn)) < MaxMembers
  /\ \E r \in { add(asn, item, FALSE) } :
        /\ asn' = r.asn
        /\ last' = [op |-> "add_unchecked", rule |-> asn.rule, item |-> item,
                    matched |-> Truthy(r.match), reprocess |-> r.reprocess,
                    raised |-> r.raised]
  /\ UNCHANGED << sequence, ord, tr, mt, lf, reg, wl, ix, sc, hp >>

Next ==
  \/ \E rule \in Rules, item \in Items : Create(rule, item)
  \/ \E item \in Items : Add(item)
  \/ \E item \in Items : AddUnchecked(item)

Spec ==
  Init /\ [][Next]_vars

\* ------------------------------------------------------------------
\* Properties of create and add
\* ------------------------------------------------------------------
\* The leaves of the association's tree and of its rule's fresh tree.
Leaves(a) ==
  Flatten(a.constraints)

ProtoLeaves(a) ==
  Flatten(NewAssociation(RuleByName(a.rule)).constraints)

\* The item satisfies the rule's full top-level tree.
Satisfies(rule, item) ==
  Truthy(check_and_set(NewAssociation(rule).constraints, item, BOTH).match)

\* C1: create(item) returns an association exactly when the item satisfies the
\* rule's full top-level tree, and then the item is its only member and it
\* holds the next sequence number; otherwise None comes back with the
\* reprocess list, and the shared sequence counter is not advanced.
C1_CreateAtomic ==
  [][ last'.op = "create" /\ last'.raised = "none" =>
        LET ok == Satisfies(RuleByName(last'.rule), last'.item)
        IN /\ (asn' # NoAsn) <=> ok
           /\ ok => /\ Members(asn') = << last'.item >>
                    /\ sequence' = sequence + 1
                    /\ asn'.sequence = sequence'
           /\ ~ok => /\ asn' = NoAsn
                     /\ sequence' = sequence ]_vars

\* A create failed and handed back reprocess entries, after an earlier
\* create had succeeded.
C1_Witness ==
  /\ last.op = "create"
  /\ asn = NoAsn
  /\ last.reprocess # << >>
  /\ sequence >= 1

\* C2: an add whose constraint tree does not match leaves the association
\* (tree, members, init-hook flag) as it was.
C2_FailedAddUnchanged ==
  [][ asn # NoAsn /\ last'.op = "add" /\ ~last'.matched /\ last'.raised = "none"
        => asn' = asn ]_vars

\* An add was refused by the constraints of an association that has a
\* locked leaf and a member.
C2_Witness ==
  /\ last.op = "add"
  /\ ~last.matched
  /\ asn # NoAsn
  /\ ~is_item_member(asn, last.item)
  /\ Len(Members(asn)) >= 1
  /\ \E k \in 1..Len(Leaves(asn)) :
        Leaves(asn)[k].type = "attr" /\ Leaves(asn)[k].found_values # {}

\* C3: no item occupies more than one member slot of an association.
C3_NoDuplicateMember ==
  asn # NoAsn =>
    \A i, j \in 1..Len(Members(asn)) : i # j => Members(asn)[i] # Members(asn)[j]

\* C4: add of an item that is already a member reports success with an empty
\* reprocess list and changes nothing.
C4_MemberAddSucceeds ==
  [][ asn # NoAsn /\ last'.op = "add" /\ is_item_member(asn, last'.item)
        => /\ last'.matched
           /\ last'.reprocess = << >>
           /\ asn' = asn ]_vars

\* A leaf is locked: its rule made it force_unique and it has matched.
Locked(a, k) ==
  /\ Leaves(a)[k].type = "attr"
  /\ ProtoLeaves(a)[k].force_unique
  /\ Leaves(a)[k].found_values # {}

\* C5: a locked leaf keeps its value and its single source through every
\* later add, successful or not.
C5_LockNeverChanges ==
  [][ asn # NoAsn /\ last'.op = "add" =>
        \A k \in 1..Len(Leaves(asn)) :
           Locked(asn, k) =>
             /\ Leaves(asn')[k].value = Leaves(asn)[k].value
             /\ Leaves(asn')[k].sources = Leaves(asn)[k].sources
             /\ Len(Leaves(asn)[k].sources) = 1 ]_vars

\* A locked leaf has matched a second, differently written value.
C5_Witness ==
  /\ asn # NoAsn
  /\ last.op = "add"
  /\ last.matched
  /\ \E k \in 1..Len(Leaves(asn)) :
        Locked(asn, k) /\ Cardinality(Leaves(asn)[k].found_values) >= 2

\* C6: found_values of every leaf only grows from one add to the next, and a
\* failed add leaves it as it was.
C6_FoundValuesMonotonic ==
  [][ asn # NoAsn /\ last'.op = "add" =>
        \A k \in 1..Len(Leaves(asn)) :
           Leaves(asn)[k].type = "attr" =>
             /\ Leaves(asn)[k].found_values \subseteq Leaves(asn')[k].found_values
             /\ ~last'.matched =>
                  Leaves(asn')[k].found_values = Leaves(asn)[k].found_values ]_vars

\* A collecting (never locking) leaf has gathered two different values.
C6_Witness ==
  /\ asn # NoAsn
  /\ asn.rule = "Asn_Collect"
  /\ \E k \in 1..Len(Leaves(asn)) :
        /\ Leaves(asn)[k].type = "attr"
        /\ {<< "a" >>, << "b" >>} \subseteq Leaves(asn)[k].found_values

\* ------------------------------------------------------------------
\* Two items offered to one rule in both orders
\* ------------------------------------------------------------------
OrderFilterValues ==
  { << "a" >>, << "A" >>, << "b" >>, << "." >>, << "a", NL >> }

OrderItems ==
  { [instrument |-> i, filter |-> f] :
      i \in InstrumentValues, f \in OrderFilterValues }

\* Rules whose tree requires (reduction ALL) a force_unique leaf on filter.
OrderRules ==
  { Asn_Lock, Asn_Optional }

InitOrder ==
  /\ asn = NoAsn
  /\ sequence = 0
  /\ ix = Off
  /\ sc = Off
  /\ hp = Off
  /\ last = NoLast
  /\ tr = NoTr
  /\ mt = Off
  /\ lf = Off
  /\ reg = Off
  /\ wl = Off
  /\ \E rule \in OrderRules, A \in OrderItems, B \in OrderItems :
        ord = [pc |-> "start", rule |-> rule.name, A |-> A, B |-> B,
               asnAB |-> NoAsn, asnBA |-> NoAsn,
               secondAB |-> FALSE, secondBA |-> FALSE]

\* asnAB = rule.create(A); asnBA = rule.create(B)
OrderCreate ==
  /\ ord.pc = "start"
  /\ ord' = [ord EXCEPT !.pc = "created",
               !.asnAB = create(RuleByName(ord.rule), ord.A, 0).asn,
               !.asnBA = create(RuleByName(ord.rule), ord.B, 0).asn]
  /\ UNCHANGED << asn, sequence, last, tr, mt, lf, reg, wl, ix, sc, hp >>

\* asnAB.add(B); asnBA.add(A)
OrderAdd ==
  /\ ord.pc = "created"
  /\ ord.asnAB # NoAsn
  /\ ord.asnBA # NoAsn
  /\ \E rAB \in { add(ord.asnAB, ord.B, TRUE) },
        rBA \in { add(ord.asnBA, ord.A, TRUE) } :
        ord' = [ord EXCEPT !.pc = "done",
                  !.asnAB = rAB.asn, !.asnBA = rBA.asn,
                  !.secondAB = Truthy(rAB.match), !.secondBA = Truthy(rBA.match)]
  /\ UNCHANGED << asn, sequence, last, tr, mt, lf, reg, wl, ix, sc, hp >>

NextOrder ==
  \/ OrderCreate
  \/ OrderAdd

SpecOrder ==
  InitOrder /\ [][NextOrder]_vars

\* The force_unique leaf on filter of an association.
FilterLeaf(a) ==
  LET ls == Leaves(a)
  IN ls[CHOOSE k \in 1..Len(ls) :
          ls[k].type = "attr" /\ ls[k].sources[1] = "filter"]

\* Both orders ended as the claim says: the first item is the only member,
\* the leaf is locked to its value, the second item was refused.
OrderSensitive ==
  /\ ~ord.secondAB
  /\ ~ord.secondBA
  /\ Members(ord.asnAB) = << ord.A >>
  /\ Members(ord.asnBA) = << ord.B >>
  /\ meets_conditions(ord.A.filter, FilterLeaf(ord.asnAB).value)
  /\ ~meets_conditions(ord.B.filter, FilterLeaf(ord.asnAB).value)
  /\ meets_conditions(ord.B.filter, FilterLeaf(ord.asnBA).value)
  /\ ~meets_conditions(ord.A.filter, FilterLeaf(ord.asnBA).value)
  /\ Members(ord.asnAB) # Members(ord.asnBA)

\* C7 as stated: any two items with different filter values, each accepted
\* on its own, end differently in the two orders, the second being refused.
C7_OrderSensitiveAnyDifferent ==
  ord.pc = "done" /\ ord.A.filter # ord.B.filter => OrderSensitive

\* Two strings are the same up to letter case.
SameIgnoringCase(v, w) ==
  /\ Len(v) = Len(w)
  /\ \A i \in 1..Len(v) : Lower(v[i]) = Lower(w[i])

\* The values differ by more than letter case and one final newline.
NoCrossMatch(v, w) ==
  /\ ~SameIgnoringCase(v, w)
  /\ ~SameIgnoringCase(v, w \o << NL >>)
  /\ ~SameIgnoringCase(w, v \o << NL >>)

\* C7: two items, each accepted on its own, whose filter values differ by
\* more than letter case and one final newline: the order [A, B] keeps A and
\* refuses B, the order [B, A] keeps B and refuses A.
C7_OrderSensitive ==
  ord.pc = "done" /\ NoCrossMatch(ord.A.filter, ord.B.filter) => OrderSensitive

\* A value holding a regex metacharacter was locked first and the plain
\* letter was refused.
C7_Witness ==
  /\ ord.pc = "done"
  /\ ord.A.filter = << "." >>
  /\ ord.B.filter = << "a" >>
  /\ Members(ord.asnAB) = << ord.A >>
  /\ ~ord.secondAB

\* ------------------------------------------------------------------
\* check_and_set on one constraint tree
\* ------------------------------------------------------------------
\* The item a SimpleConstraint of the trees below is set to.
ItemAA ==
  [instrument |-> << "a" >>, filter |-> << "a" >>]

\* Children a tree is built from: a fixed value, a locking leaf, a locking
\* leaf that evaluates its attribute, a collecting leaf, a SimpleConstraint
\* that always asks for reprocessing, ConstraintTrue, and a nested tree.
ChildChoices ==
  { AttrConstraint(<< "instrument" >>, << "instrument" >>, << "a" >>, FALSE, TRUE),
    AttrConstraint(<< "filter" >>, << "filter" >>, None, TRUE, TRUE),
    [AttrConstraint(<< "filter_ev" >>, << "filter" >>, None, TRUE, TRUE)
       EXCEPT !.evaluate = TRUE],
    SimpleConstraint(<< "simple" >>, ItemAA, FALSE, RULES),
    ConstraintTrue,
    Constraint(
      << AttrConstraint(<< "instrument" >>, << "instrument" >>, << "b" >>, FALSE, TRUE),
         AttrConstraint(<< "filter" >>, << "filter" >>, << "b" >>, FALSE, TRUE) >>,
      "any", << "nested" >>, BOTH) }

\* Sequences of at most n children.
RECURSIVE ChildSeqs(_)
ChildSeqs(n) ==
  IF n = 0 THEN { << >> }
  ELSE LET shorter == ChildSeqs(n - 1)
       IN shorter \cup { Append(cs, c) : cs \in { x \in shorter : Len(x) = n - 1 },
                                         c \in ChildChoices }

TreeInputs ==
  { Constraint(cs, reduce, None, wo) :
      cs \in ChildSeqs(MaxChildren), reduce \in {"all", "any"},
      wo \in {BOTH, EXISTING, RULES} }

InitTree ==
  /\ asn = NoAsn
  /\ sequence = 0
  /\ ix = Off
  /\ sc = Off
  /\ hp = Off
  /\ last = NoLast
  /\ ord = NoOrd
  /\ mt = Off
  /\ lf = Off
  /\ reg = Off
  /\ wl = Off
  /\ \E t \in TreeInputs :
        tr = [pc |-> "ready", tree |-> t, called |-> t, item |-> << >>,
              work_over |-> BOTH, res |-> Result(NoMatch, << >>),
              calls |-> << >>, checks |-> 0]

\* new, reprocess = tree.check_and_set(item, work_over); a caller that got a
\* constraint back goes on with it, as Association does.
TreeCheck(item, work_over) ==
  /\ tr.pc # "off"
  /\ tr.checks < MaxChecks
  /\ \E res \in { check_and_set(tr.tree, item, work_over) } :
        tr' = [pc |-> "done",
               tree |-> IF Truthy(res.match) THEN res.match ELSE tr.tree,
               called |-> tr.tree, item |-> item, work_over |-> work_over,
               res |-> res, calls |-> Invoked(tr.tree, item, work_over),
               checks |-> tr.checks + 1]
  /\ UNCHANGED << asn, sequence, last, ord, mt, lf, reg, wl, ix, sc, hp >>

NextTree ==
  \E item \in Items, work_over \in {BOTH, EXISTING, RULES} :
     TreeCheck(item, work_over)

SpecTree ==
  InitTree /\ [][NextTree]_vars

\* What each child of the tree the call was made on answers for the item.
ChildResults ==
  [i \in 1..Len(tr.called.constraints) |->
     check_and_set(tr.called.constraints[i], tr.item, BOTH)]

\* The call was check_and_set(item) with the default scope on a tree with
\* the given reduction.
Called(reduce) ==
  /\ tr.pc = "done"
  /\ tr.work_over = BOTH
  /\ tr.called.reduce = reduce

\* An ALL tree succeeds exactly when every child matched, and the tree that
\* comes back holds each child's narrowed constraint in its place.
AllContract ==
  /\ tr.res.raised = "none"
  /\ Truthy(tr.res.match) <=>
       \A i \in 1..Len(ChildResults) : Truthy(ChildResults[i].match)
  /\ Truthy(tr.res.match) =>
       /\ tr.res.match.type = "tree"
       /\ tr.res.match.reduce = tr.called.reduce
       /\ tr.res.match.name = tr.called.name
       /\ tr.res.match.work_over = tr.called.work_over
       /\ Len(tr.res.match.constraints) = Len(ChildResults)
       /\ \A i \in 1..Len(ChildResults) :
             tr.res.match.constraints[i] = ChildResults[i].match

\* C8 as stated: every ALL tree, whatever its number of children.
C8_AllIffEveryChildAnyTree ==
  Called("all") => AllContract

\* C8: for an ALL tree with at least one child, check_and_set succeeds exactly
\* when every child matched and returns the tree of the narrowed children.
C8_AllIffEveryChild ==
  Called("all") /\ Len(tr.called.constraints) >= 1 => AllContract

\* An ALL tree of a locking leaf and a fixed-value leaf matched and came back
\* with the first leaf narrowed.
C8_Witness ==
  /\ Called("all")
  /\ Len(tr.called.constraints) = 2
  /\ Truthy(tr.res.match)
  /\ tr.res.match.constraints[1] # tr.called.constraints[1]

\* Failing children of the call, in child order.
Failing(i) ==
  ~Truthy(ChildResults[i].match)

FailingWithReprocess(i) ==
  Failing(i) /\ ChildResults[i].reprocess # << >>

FirstFailingWithReprocess ==
  CHOOSE i \in 1..Len(ChildResults) :
     FailingWithReprocess(i) /\ \A h \in 1..(i - 1) : ~FailingWithReprocess(h)

\* C9 as stated: a failing ALL tree returns the reprocess list of the first
\* failing child that has one, and an empty list when no failing child has one.
C9_FirstReprocessAlways ==
  Called("all") /\ ~Truthy(tr.res.match) /\ Len(ChildResults) >= 1 =>
    IF \E i \in 1..Len(ChildResults) : FailingWithReprocess(i)
    THEN tr.res.reprocess = ChildResults[FirstFailingWithReprocess].reprocess
    ELSE tr.res.reprocess = << >>

\* C9: a failing ALL tree all of whose failing children returned a reprocess
\* list returns exactly the list of the first of them; as soon as one failing
\* child returned no reprocess list, the tree returns an empty list.
C9_FirstReprocess ==
  Called("all") /\ ~Truthy(tr.res.match) /\ Len(ChildResults) >= 1 =>
    IF \A i \in 1..Len(ChildResults) : Failing(i) => FailingWithReprocess(i)
    THEN tr.res.reprocess = ChildResults[FirstFailingWithReprocess].reprocess
    ELSE tr.res.reprocess = << >>

\* Two children failed with different reprocess lists and the tree returned
\* the first one.
C9_Witness ==
  /\ Called("all")
  /\ Len(ChildResults) = 2
  /\ FailingWithReprocess(1)
  /\ FailingWithReprocess(2)
  /\ ChildResults[1].reprocess # ChildResults[2].reprocess
  /\ tr.res.reprocess = ChildResults[1].reprocess

\* An ANY tree succeeds exactly when some child matched; matched children are
\* replaced by their narrowed constraints, the others stay; the reprocess
\* lists of all children are concatenated in child order.
AnyContract ==
  /\ tr.res.raised = "none"
  /\ Truthy(tr.res.match) <=>
       \E i \in 1..Len(ChildResults) : Truthy(ChildResults[i].match)
  /\ Truthy(tr.res.match) =>
       /\ tr.res.match.type = "tree"
       /\ tr.res.match.reduce = "any"
       /\ Len(tr.res.match.constraints) = Len(ChildResults)
       /\ \A i \in 1..Len(ChildResults) :
             tr.res.match.constraints[i] =
               IF Truthy(ChildResults[i].match) THEN ChildResults[i].match
               ELSE tr.called.constraints[i]
  /\ tr.res.reprocess =
       Chain([i \in 1..Len(ChildResults) |-> ChildResults[i].reprocess])

Admitted ==
  /\ tr.pc = "done"
  /\ (tr.work_over = BOTH \/ tr.work_over = tr.called.work_over)

\* Every child of a tree, once, in child order.
EachChildOnce(c) ==
  [i \in 1..Len(c.constraints) |-> i]

\* C11: a check_and_set call that passes the scope filter invokes the
\* check_and_set of each child exactly once, in child order, whatever the
\* earlier children answered, for ALL and for ANY trees; the same holds for
\* the calls a nested tree makes on its own children.
C11_NoShortCircuit ==
  Admitted =>
    /\ tr.calls = EachChildOnce(tr.called)
    /\ \A i \in 1..Len(tr.called.constraints) :
          tr.called.constraints[i].type = "tree" =>
            Invoked(tr.called.constraints[i], tr.item, BOTH)
              = EachChildOnce(tr.called.constraints[i])

\* The first child of an ALL tree failed without a reprocess list, which
\* settles the tree's answer, and the second child was called all the same.
C11_Witness ==
  /\ Admitted
  /\ tr.called.reduce = "all"
  /\ Len(tr.called.constraints) = 2
  /\ ~Truthy(ChildResults[1].match)
  /\ ChildResults[1].reprocess = << >>
  /\ tr.calls = << 1, 2 >>

\* C12: a tree configured with work_over EXISTING or RULES that is called
\* with another scope than its own or BOTH returns (False, []) and calls no
\* child; called with its own scope or with BOTH it calls its children.
C12_ScopeFilter ==
  tr.pc = "done" /\ tr.called.work_over \in {EXISTING, RULES} =>
    IF tr.work_over # BOTH /\ tr.work_over # tr.called.work_over
    THEN /\ tr.res = Result(NoMatch, << >>)
         /\ tr.calls = << >>
    ELSE tr.calls = EachChildOnce(tr.called)

\* A tree for EXISTING whose two children both accept the item was called
\* with RULES: it answered False and called neither child.
C12_Witness ==
  /\ tr.pc = "done"
  /\ tr.called.work_over = EXISTING
  /\ tr.work_over = RULES
  /\ Len(tr.called.constraints) = 2
  /\ \A i \in 1..2 : Truthy(ChildResults[i].match)
  /\ ~Truthy(tr.res.match)
  /\ tr.calls = << >>

\* ------------------------------------------------------------------
\* meets_conditions on one pattern and one value
\* ------------------------------------------------------------------
\* Strings of at most n characters over the given characters.
RECURSIVE Strings(_, _)
Strings(chars, n) ==
  IF n = 0 THEN { << >> }
  ELSE LET shorter == Strings(chars, n - 1)
       IN shorter \cup { Append(w, ch) : w \in { x \in shorter : Len(x) = n - 1 },
                                         ch \in chars }

\* Patterns rules give to an AttrConstraint: a word, a word with a wildcard,
\* alternatives (as 'mir_lrs-fixedslit|mir_tacq' of Asn_MIRI_LRS_FIXEDSLIT).
MatchPatterns ==
  { << "a" >>, << "a", "b" >>, << "a", "." >>, << "a", "|", "b" >>,
    << "a", "b", "|", "b" >>, << "a", "|", "b", "a" >> }

\* Values of an item's attribute.
MatchValues ==
  Strings({"a", "b", "A", NL}, MaxValueLen) \ { << >> }

InitMatch ==
  /\ asn = NoAsn
  /\ sequence = 0
  /\ ix = Off
  /\ sc = Off
  /\ hp = Off
  /\ last = NoLast
  /\ ord = NoOrd
  /\ tr = NoTr
  /\ lf = Off
  /\ reg = Off
  /\ wl = Off
  /\ \E p \in MatchPatterns, v \in MatchValues :
        mt = [pc |-> "ready", pattern |-> p, value |-> v, res |-> FALSE]

\* res = meets_conditions(value, pattern)
Match ==
  /\ mt.pc = "ready"
  /\ mt' = [mt EXCEPT !.pc = "done",
                      !.res = meets_conditions(mt.value, mt.pattern)]
  /\ UNCHANGED << asn, sequence, last, ord, tr, lf, reg, wl, ix, sc, hp >>

NextMatch ==
  Match

SpecMatch ==
  InitMatch /\ [][NextMatch]_vars

\* The whole of the value, ignoring case, is one of the alternatives of the
\* pattern: every character is taken by one atom and none is left over.
WholeValueMatches(pattern, value) ==
  LET Whole(brs) ==
        \E i \in 1..Len(brs) :
           /\ Len(brs[i]) = Len(value)
           /\ \A k \in 1..Len(value) :
                 IF brs[i][k].k = "any" THEN value[k] # NL
                 ELSE Lower(brs[i][k].c) = Lower(value[k])
  IN Whole(Branches(Tokens(pattern)))

\* C13: meets_conditions succeeds only if the whole value, ignoring case, is
\* matched by the pattern, never when only a proper prefix of the value is,
\* for every pattern, patterns with alternatives included.
C13_FullStringMatch ==
  mt.pc = "done" /\ mt.res => WholeValueMatches(mt.pattern, mt.value)

\* ------------------------------------------------------------------
\* check_and_set on one AttrConstraint
\* ------------------------------------------------------------------
\* Pool rows offered to a leaf: a plain value, a value with a regex
\* metacharacter, a list literal, attributes missing.
LeafItems ==
  LET filters == { << "a" >>, << "b" >>, << "." >>, ListAB, NestedList }
      withBoth == { [instrument |-> i, filter |-> f] :
                      i \in InstrumentValues, f \in filters }
      onlyI == { [instrument |-> i] : i \in InstrumentValues }
      onlyF == { [filter |-> f] : f \in filters }
  IN withBoth \cup onlyI \cup onlyF

\* AttrConstraints as rules write them.
LeafInputs ==
  { [AttrConstraint(<< "leaf" >>, sources, value, force_unique, required)
       EXCEPT !.evaluate = ev, !.invalid_values = invalid,
              !.force_undefined = opt.force_undefined, !.onlyif = opt.onlyif,
              !.force_reprocess = opt.force_reprocess] :
      sources \in { << "filter" >>, << "filter", "instrument" >>,
                    << "instrument", "filter" >> },
      value \in { None, << "a" >>, << "a", "|", "b" >> },
      force_unique \in BOOLEAN, required \in BOOLEAN, ev \in BOOLEAN,
      invalid \in { {}, { << "b" >> } },
      opt \in { [force_undefined |-> FALSE, onlyif |-> "always", force_reprocess |-> 0],
                [force_undefined |-> TRUE, onlyif |-> "always", force_reprocess |-> 0],
                [force_undefined |-> FALSE, onlyif |-> "never", force_reprocess |-> 0],
                [force_undefined |-> TRUE, onlyif |-> "never", force_reprocess |-> 0],
                [force_undefined |-> FALSE, onlyif |-> "never", force_reprocess |-> RULES] } }

InitLeaf ==
  /\ asn = NoAsn
  /\ sequence = 0
  /\ ix = Off
  /\ sc = Off
  /\ hp = Off
  /\ last = NoLast
  /\ ord = NoOrd
  /\ tr = NoTr
  /\ mt = Off
  /\ reg = Off
  /\ wl = Off
  /\ \E c \in LeafInputs :
        lf = [pc |-> "ready", leaf |-> c, called |-> c, item |-> << >>,
              res |-> Result(NoMatch, << >>), checks |-> 0]

\* match, reprocess = leaf.check_and_set(item); a caller that got a
\* constraint back goes on with it.
LeafCheck(item) ==
  /\ lf.pc # "off"
  /\ lf.checks < MaxChecks
  /\ \E res \in { Attr_check_and_set(lf.leaf, item) } :
        lf' = [pc |-> "done",
               leaf |-> IF Truthy(res.match) THEN res.match ELSE lf.leaf,
               called |-> lf.leaf, item |-> item, res |-> res,
               checks |-> lf.checks + 1]
  /\ UNCHANGED << asn, sequence, last, ord, tr, mt, reg, wl, ix, sc, hp >>

NextLeaf ==
  \E item \in LeafItems : LeafCheck(item)

SpecLeaf ==
  InitLeaf /\ [][NextLeaf]_vars

\* What the call found in the item: the first valid source and its value,
\* and the value the check was made on.
LeafGot ==
  getattr_from_list(lf.item, lf.called.sources, lf.called.invalid_values)

LeafValue ==
  IF lf.called.evaluate THEN evaluate(LeafGot.value).value ELSE LeafGot.value

\* The call matched a value found in the item.
LeafMatchedValue ==
  /\ lf.pc = "done"
  /\ OnlyIf(lf.called.onlyif, lf.item)
  /\ Truthy(lf.res.match)
  /\ LeafGot.found

\* The returned constraint is locked on the matched value and its source.
LeafLockedOnValue ==
  /\ lf.res.match.value = Escape(LeafValue)
  /\ lf.res.match.sources = << LeafGot.source >>

LeafNotNarrowed ==
  /\ lf.res.match.value = lf.called.value
  /\ lf.res.match.sources = lf.called.sources

\* C14 as stated: the escaped value is recorded, and the constraint is locked
\* when its pattern was unset or force_unique was set.
C14_LockIfUnsetOrUnique ==
  LeafMatchedValue =>
    /\ Escape(LeafValue) \in lf.res.match.found_values
    /\ IF lf.called.value = None \/ lf.called.force_unique
       THEN LeafLockedOnValue ELSE LeafNotNarrowed

\* C14: after a successful match of a value found in the item, the escaped
\* value is in the returned constraint's found_values; if force_unique was
\* set, the returned constraint's pattern is the escaped value and its
\* sources the single attribute the value came from; otherwise pattern and
\* sources are as they were, also when the pattern was unset.
C14_LockIfUnique ==
  LeafMatchedValue =>
    /\ Escape(LeafValue) \in lf.res.match.found_values
    /\ IF lf.called.force_unique
       THEN LeafLockedOnValue ELSE LeafNotNarrowed

\* A force_unique constraint with the pattern a|b over two sources matched a
\* value and came back with the escaped value as pattern and one source.
C14_Witness ==
  /\ LeafMatchedValue
  /\ lf.called.force_unique
  /\ lf.called.value = << "a", "|", "b" >>
  /\ Len(lf.called.sources) = 2
  /\ lf.res.match.value = << "b" >>
  /\ lf.res.match.sources = << "filter" >>

\* Source k of the constraint is in the item with a valid value.
ValidSource(k) ==
  /\ lf.called.sources[k] \in DOMAIN lf.item
  /\ lf.item[lf.called.sources[k]] \notin lf.called.invalid_values

NoValidSource ==
  /\ lf.pc = "done"
  /\ \A k \in 1..Len(lf.called.sources) : ~ValidSource(k)

FirstValidSource ==
  lf.called.sources[CHOOSE k \in 1..Len(lf.called.sources) :
                      ValidSource(k) /\ \A h \in 1..(k - 1) : ~ValidSource(h)]

\* The call used the value of the given source: the check was made on it,
\* a success recorded and locked it, an expansion replaced it.
UsedSource(source) ==
  LET Used(v) ==
        IF v.iterable
        THEN /\ ~Truthy(lf.res.match)
             /\ Len(lf.res.reprocess) = 1
             /\ lf.res.reprocess[1].items =
                  [k \in 1..Len(v.values) |-> ItemWith(lf.item, source, v.values[k])]
        ELSE /\ Truthy(lf.res.match) <=>
                  (lf.called.value = None \/ meets_conditions(v.value, lf.called.value))
             /\ Truthy(lf.res.match) =>
                  /\ Escape(v.value) \in lf.res.match.found_values
                  /\ lf.called.force_unique =>
                       lf.res.match.sources = << source >>
  IN Used(IF lf.called.evaluate THEN evaluate(lf.item[source])
          ELSE [iterable |-> FALSE, values |-> << >>, value |-> lf.item[source]])

\* C15 as stated: with no valid source the call fails if required is set and
\* otherwise returns the constraint as it was, without reprocess list; with a
\* valid source the first one in sources order is used.
C15_MissingFailsIfRequired ==
  /\ NoValidSource =>
       /\ lf.res.reprocess = << >>
       /\ IF lf.called.required THEN ~Truthy(lf.res.match)
          ELSE lf.res.match = lf.called
  /\ lf.pc = "done" /\ ~NoValidSource /\ ~lf.called.force_undefined =>
       UsedSource(FirstValidSource)

\* C15: when onlyif holds for the item and no source of the constraint is in
\* the item with a valid value, check_and_set fails if required is set and
\* force_undefined is not, and otherwise returns a constraint equal to the
\* original, in both cases without reprocess list; when onlyif holds, some
\* sources are valid and force_undefined is not set, the value used is that
\* of the first valid source in sources order.
C15_MissingSource ==
  lf.pc = "done" /\ OnlyIf(lf.called.onlyif, lf.item) =>
    /\ NoValidSource =>
         /\ lf.res.reprocess = << >>
         /\ IF lf.called.required /\ ~lf.called.force_undefined
            THEN ~Truthy(lf.res.match)
            ELSE lf.res.match = lf.called
    /\ ~NoValidSource /\ ~lf.called.force_undefined =>
         UsedSource(FirstValidSource)

\* An optional, still unlocked force_unique constraint was offered an item
\* whose only source value is invalid and came back as it was.
C15_Witness ==
  /\ NoValidSource
  /\ OnlyIf(lf.called.onlyif, lf.item)
  /\ ~lf.called.required
  /\ ~lf.called.force_undefined
  /\ lf.called.force_unique
  /\ lf.called.value = None
  /\ \E k \in 1..Len(lf.called.sources) : lf.called.sources[k] \in DOMAIN lf.item
  /\ lf.res.match = lf.called
  /\ lf.res.reprocess = << >>

\* The call was made on an evaluating constraint and found the text of a
\* list in the item.
LeafFoundList ==
  /\ lf.pc = "done"
  /\ OnlyIf(lf.called.onlyif, lf.item)
  /\ lf.called.evaluate
  /\ ~lf.called.force_undefined
  /\ ~NoValidSource
  /\ evaluate(lf.item[FirstValidSource]).iterable

\* The values of that list.
LeafList ==
  evaluate(lf.item[FirstValidSource]).values

\* Offering the item to the constraint the call was made on makes it ask
\* for items that hold another value of the attribute.
ExpandsOn(item, attr) ==
  LET Asks(r) ==
        \E p \in 1..Len(r.reprocess) :
           \E k \in 1..Len(r.reprocess[p].items) :
              r.reprocess[p].items[k][attr] # item[attr]
  IN Asks(Attr_check_and_set(lf.called, item))

\* The call failed and returned one reprocess item per value of the list, in
\* the order of the list, each the item with the attribute set to that value.
OneItemPerValue ==
  /\ ~Truthy(lf.res.match)
  /\ Len(lf.res.reprocess) = 1
  /\ Len(lf.res.reprocess[1].items) = Len(LeafList)
  /\ \A k \in 1..Len(LeafList) :
        /\ DOMAIN lf.res.reprocess[1].items[k] = DOMAIN lf.item
        /\ \A a \in DOMAIN lf.item :
              lf.res.reprocess[1].items[k][a] =
                IF a = FirstValidSource THEN LeafList[k] ELSE lf.item[a]

USER_ASN ==
  "Asn"

\* class_name.startswith('Asn_')
StartsWithUserAsn(class_name) ==
  Len(class_name) >= 2 /\ Head(class_name) = USER_ASN

\* A class found in a definition file by get_classes.
Class(class_name, rule) ==
  [class_name |-> class_name, rule |-> rule]

\* AssociationRegistry.__init__, the loop over the classes of the definition
\* files: the rules registered, in the order they are found.
RECURSIVE Register(_, _)
Register(classes, include_bases) ==
  IF classes = << >> THEN << >>
  ELSE (IF include_bases \/ StartsWithUserAsn(Head(classes).class_name)
        THEN << Head(classes).rule >> ELSE << >>)
         \o Register(Tail(classes), include_bases)

\* AssociationRegistry(definition_files, include_default): default_file is
\* what libpath('association_rules.py') holds. [raised, rules]
Registry(definition_files, include_default, default_file) ==
  LET Loaded(files) ==
        IF Len(files) <= 0
        THEN [raised |-> "AssociationError", rules |-> << >>]
        ELSE [raised |-> "none", rules |-> Register(Chain(files), FALSE)]
  IN Loaded(IF include_default THEN << default_file >> \o definition_files
            ELSE definition_files)

\* x in list
InList(x, list) ==
  \E i \in 1..Len(list) : list[i] = x

\* The loop of match that tries the ignored rules as well.
RECURSIVE MatchLoop_tries_ignored(_, _, _, _, _, _)
MatchLoop_tries_ignored(rules, i, item, allow, ignore, st) ==
  IF i > Len(rules) \/ st.raised # "none" THEN st
  ELSE IF InList(rules[i], allow)
  THEN LET Created(r) ==
             [associations |-> st.associations
                                 \o (IF r.asn # NoAsn THEN << r.asn >> ELSE << >>),
              process_list |-> st.process_list \o r.reprocess,
              counter |-> r.counter,
              created |-> Append(st.created, rules[i]),
              raised |-> r.raised]
       IN MatchLoop_tries_ignored(rules, i + 1, item, allow, ignore,
                    Created(create(RuleByName(rules[i]), item, st.counter)))
  ELSE MatchLoop_tries_ignored(rules, i + 1, item, allow, ignore, st)

\* AssociationRegistry.match, the loop over self.items() from rule i on; st
\* holds associations and process_list, the shared sequence counter and the
\* rules create was called on.
RECURSIVE MatchLoop(_, _, _, _, _, _)
MatchLoop(rules, i, item, allow, ignore, st) ==
  IF i > Len(rules) \/ st.raised # "none" THEN st
  ELSE IF ~InList(rules[i], ignore) /\ InList(rules[i], allow)
  THEN LET Created(r) ==
             [associations |-> st.associations
                                 \o (IF r.asn # NoAsn THEN << r.asn >> ELSE << >>),
              process_list |-> st.process_list \o r.reprocess,
              counter |-> r.counter,
              created |-> Append(st.created, rules[i]),
              raised |-> r.raised]
           Rest(next) ==
             MatchLoop(rules, i + 1, item, allow, ignore, next)
       IN With(With(create(RuleByName(rules[i]), item, st.counter), Created), Rest)
  ELSE MatchLoop(rules, i + 1, item, allow, ignore, st)

\* AssociationRegistry.match(item, allow, ignore) on the registry holding
\* the given rules: allow None is every rule, ignore None is no rule.
Registry_match(rules, item, allow, ignore, counter) ==
  MatchLoop(rules, 1, item,
            IF allow = None THEN rules ELSE allow,
            IF ignore = None THEN << >> ELSE ignore,
            [associations |-> << >>, process_list |-> << >>, counter |-> counter,
             created |-> << >>, raised |-> "none"])

\* Definition files, each with the classes get_classes finds in it, in
\* the order of getmembers (by name).
FileLevel3 ==
  << Class(<< "Asn", "Collect" >>, "Asn_Collect"),
     Class(<< "Asn", "Lock" >>, "Asn_Lock"),
     Class(<< "Constraint" >>, "Constraint"),
     Class(<< "Utility" >>, "Utility") >>

FileOptional ==
  << Class(<< "Asn", "Optional" >>, "Asn_Optional") >>

FileNoRules ==
  << Class(<< "DMS", "Level3", "Base" >>, "DMS_Level3_Base"),
     Class(<< "Utility" >>, "Utility") >>

DefinitionFiles ==
  { FileLevel3, FileOptional, FileNoRules }

\* definition_files arguments: None (as no file) up to two files.
DefinitionFileLists ==
  { << >> } \cup { << f >> : f \in DefinitionFiles }
    \cup { << f, g >> : f \in DefinitionFiles, g \in DefinitionFiles \ { FileNoRules } }

\* allow and ignore arguments of match.
AllowChoices ==
  { None, << "Asn_Lock" >>, << "Asn_Optional", "Asn_Lock", "Asn_Collect" >> }

IgnoreChoices ==
  { None, << "Asn_Lock" >>, << "Asn_Collect" >> }

InitRegistry ==
  /\ asn = NoAsn
  /\ sequence = 0
  /\ ix = Off
  /\ sc = Off
  /\ hp = Off
  /\ last = NoLast
  /\ ord = NoOrd
  /\ tr = NoTr
  /\ mt = Off
  /\ lf = Off
  /\ wl = Off
  /\ reg = [pc |-> "new"]

\* registry = AssociationRegistry(definition_files, include_default)
Construct(definition_files, include_default, default_file) ==
  /\ reg.pc = "new"
  /\ \E r \in { Registry(definition_files, include_default, default_file) } :
        reg' = [pc |-> IF r.raised = "none" THEN "built" ELSE "failed",
                rules |-> r.rules, raised |-> r.raised, counter |-> 0,
                matches |-> 0]
  /\ UNCHANGED << asn, sequence, last, ord, tr, mt, lf, wl, ix, sc, hp >>

\* associations, process_list = registry.match(item, allow=allow, ignore=ignore)
RegistryMatch(item, allow, ignore) ==
  /\ reg.pc \in {"built", "matched"}
  /\ reg.matches < MaxChecks
  /\ reg.counter < MaxSequence
  /\ \E r \in { Registry_match(reg.rules, item, allow, ignore, reg.counter) } :
        reg' = [pc |-> "matched", rules |-> reg.rules, raised |-> r.raised,
                counter |-> r.counter, matches |-> reg.matches + 1,
                item |-> item, allow |-> allow, ignore |-> ignore,
                associations |-> r.associations,
                process_list |-> r.process_list, created |-> r.created]
  /\ UNCHANGED << asn, sequence, last, ord, tr, mt, lf, wl, ix, sc, hp >>

NextRegistry ==
  \/ \E definition_files \in DefinitionFileLists, include_default \in BOOLEAN,
        default_file \in DefinitionFiles :
        Construct(definition_files, include_default, default_file)
  \/ \E item \in Items, allow \in AllowChoices, ignore \in IgnoreChoices :
        RegistryMatch(item, allow, ignore)

SpecRegistry ==
  InitRegistry /\ [][NextRegistry]_vars

\* The registered rules match was to try: in allow (every rule when allow is
\* not given) and not in ignore, in registry order.
Attempted ==
  LET Wanted(rule) ==
        /\ reg.allow = None \/ \E i \in 1..Len(reg.allow) : reg.allow[i] = rule
        /\ reg.ignore = None \/ \A i \in 1..Len(reg.ignore) : reg.ignore[i] # rule
  IN SelectSeq(reg.rules, Wanted)

\* What create of the rule answers for the item of the call, the sequence
\* number left aside.
Outcome(rule) ==
  create(RuleByName(rule), reg.item, 0)

Unnumbered(a) ==
  [a EXCEPT !.sequence = 0]

\* C18: match calls create once for each registered rule that is in allow
\* (every rule by default) and not in ignore, in registry order, and for no
\* other rule; it returns the associations these calls created, in registry
\* order, and the reprocess lists of all these calls, failed ones included,
\* concatenated in registry order.
C18_MatchAllowIgnore ==
  reg.pc = "matched" =>
    LET created == SelectSeq(Attempted, LAMBDA rule : Outcome(rule).asn # NoAsn)
    IN /\ reg.created = Attempted
       /\ Len(reg.associations) = Len(created)
       /\ \A k \in 1..Len(created) :
             Unnumbered(reg.associations[k]) = Unnumbered(Outcome(created[k]).asn)
       /\ reg.process_list =
            Chain([k \in 1..Len(Attempted) |-> Outcome(Attempted[k]).reprocess])

\* Of three registered rules the ignored one was not tried although it is
\* allowed, one created an association, and one failed and its reprocess list
\* was returned.
C18_Witness ==
  /\ reg.pc = "matched"
  /\ Len(reg.rules) = 3
  /\ reg.allow # None
  /\ reg.ignore = << "Asn_Lock" >>
  /\ Outcome("Asn_Lock").asn # NoAsn
  /\ reg.created = << "Asn_Collect", "Asn_Optional" >>
  /\ Len(reg.associations) = 1
  /\ reg.process_list # << >>

\* C20: constructing a registry that ends up without any rule raises
\* AssociationError, when no definition file is given and when the files
\* given hold no rule class.
C20_EmptyRegistryRaises ==
  reg.pc \in {"built", "failed"} /\ reg.rules = << >> =>
    reg.raised = "AssociationError"

\* ------------------------------------------------------------------
\* The init hook of an association
\* ------------------------------------------------------------------
\* C19: over all the adds made on one association the init hook runs once,
\* in the first successful add and before its _add(item); no failed add, add
\* of an existing member or later successful add runs it again.
C19_InitHookOnce ==
  asn # NoAsn =>
    asn.called = << "_init_hook" >> \o [i \in 1..Len(Members(asn)) |-> "_add"]

\* A second member was added to an association: the hook ran once, before
\* the first of the two _add calls.
C19_Witness ==
  /\ asn # NoAsn
  /\ last.op = "add"
  /\ last.matched
  /\ Len(Members(asn)) = 2
  /\ asn.called = << "_init_hook", "_add", "_add" >>

\* ------------------------------------------------------------------
\* The loop that drives a registry over a pool
\* ------------------------------------------------------------------
\* A worklist entry made of a reprocess entry an association returned: the
\* items and the scope the constraint asked for, the rule of the association.
ToEntry(process_list) ==
  [items |-> process_list.items[1].items,
   rules |-> process_list.rules,
   work_over |-> process_list.items[1].work_over]

\* The extend path: the item is offered to every existing association of
\* the entry's rules, from association j on. st: [associations, reprocess,
\* satisfied (the rules of the associations that took the item)]
RECURSIVE ExtendLoop(_, _, _, _)
ExtendLoop(j, item, rules, st) ==
  IF j > Len(st.associations) THEN st
  ELSE IF ~InList(st.associations[j].rule, rules)
  THEN ExtendLoop(j + 1, item, rules, st)
  ELSE LET Added(r) ==
             [associations |-> [st.associations EXCEPT ![j] = r.asn],
              reprocess |-> st.reprocess \o r.reprocess,
              satisfied |-> st.satisfied
                              \o (IF Truthy(r.match)
                                  THEN << st.associations[j].rule >> ELSE << >>)]
           Rest(next) ==
             ExtendLoop(j + 1, item, rules, next)
       IN With(With(add(st.associations[j], item, TRUE), Added), Rest)

\* One item of an entry: the extend path when the scope has EXISTING, then
\* the new-association path when it has RULES, the rules already satisfied
\* for this item ignored. [associations, counter, reprocess]
generate_from_item(registry, associations, counter, entry, item) ==
  LET Extended(ext) ==
        IF entry.work_over \in {BOTH, RULES}
        THEN LET Matched(m) ==
                   [associations |-> ext.associations \o m.associations,
                    counter |-> m.counter,
                    reprocess |-> ext.reprocess \o m.process_list]
             IN With(Registry_match(registry, item, entry.rules,
                                    ext.satisfied, counter), Matched)
        ELSE [associations |-> ext.associations, counter |-> counter,
              reprocess |-> ext.reprocess]
      Untouched ==
        [associations |-> associations, reprocess |-> << >>, satisfied |-> << >>]
  IN With(IF entry.work_over \in {BOTH, EXISTING}
          THEN ExtendLoop(1, item, entry.rules, Untouched)
          ELSE Untouched, Extended)

\* The entries to append for the reprocess entries returned, those without
\* items left out.
RECURSIVE NewEntries(_)
NewEntries(reprocess) ==
  IF reprocess = << >> THEN << >>
  ELSE (IF ToEntry(Head(reprocess)).items = << >> THEN << >>
        ELSE << ToEntry(Head(reprocess)) >>)
         \o NewEntries(Tail(reprocess))

\* Pools and registries the loop is run on.
LoopItems ==
  { [instrument |-> << "a" >>, filter |-> << "a" >>],
    [instrument |-> << "a" >>, filter |-> ListAB],
    [instrument |-> << "b" >>, filter |-> << "b" >>],
    [filter |-> NestedList] }

LoopPools ==
  { << x >> : x \in LoopItems }
    \cup { << x, y >> : x \in LoopItems, y \in LoopItems }

LoopRegistries ==
  { << "Asn_Lock" >>, << "Asn_Optional" >>, << "Asn_Lock", "Asn_Optional" >>,
    << "Asn_Again" >>, << "Asn_Again", "Asn_Optional" >> }

\* The worklist is seeded with all pool items, scope RULES.
InitLoop ==
  /\ asn = NoAsn
  /\ sequence = 0
  /\ ix = Off
  /\ sc = Off
  /\ hp = Off
  /\ last = NoLast
  /\ ord = NoOrd
  /\ tr = NoTr
  /\ mt = Off
  /\ lf = Off
  /\ reg = Off
  /\ \E registry \in LoopRegistries, pool \in LoopPools :
        wl = [pc |-> "run", registry |-> registry, pool |-> pool,
              queue |-> << [items |-> pool, rules |-> registry,
                            work_over |-> RULES] >>,
              associations |-> << >>, counter |-> 0]

\* Pop the first item of the first entry, match it, append the reprocess
\* entries returned to the end of the worklist.
LoopStep ==
  /\ wl.pc = "run"
  /\ wl.queue # << >>
  /\ \E entry \in { Head(wl.queue) } :
       \E r \in { generate_from_item(wl.registry, wl.associations, wl.counter,
                                     entry, Head(entry.items)) } :
          \E queue \in { (IF Tail(entry.items) = << >> THEN << >>
                          ELSE << [entry EXCEPT !.items = Tail(@)] >>)
                           \o Tail(wl.queue) \o NewEntries(r.reprocess) } :
             /\ Len(queue) <= MaxQueue
             /\ wl' = [wl EXCEPT !.queue = queue,
                                 !.associations = r.associations,
                                 !.counter = r.counter]
  /\ UNCHANGED << asn, sequence, last, ord, tr, mt, lf, reg, ix, sc, hp >>

NextLoop ==
  LoopStep

\* The loop runs on as long as the worklist holds an entry.
SpecLoop ==
  InitLoop /\ [][NextLoop]_vars /\ WF_vars(NextLoop)

\* No constraint of the registry's rules asks for reprocessing by
\* force_reprocess: reprocess entries come from evaluate expansion only.
EmitsOnlyByEvaluate ==
  \A i \in 1..Len(wl.registry) :
     LET leaves == Flatten(NewAssociation(RuleByName(wl.registry[i])).constraints)
     IN \A k \in 1..Len(leaves) :
           leaves[k].type \in {"attr", "simple"} => leaves[k].force_reprocess = 0

QueueBelowMax ==
  wl.pc = "run" => Len(wl.queue) < MaxQueue

\* ------------------------------------------------------------------
\* A failing child without reprocess list in an ALL tree
\* ------------------------------------------------------------------
\* Child i of the call failed and returned an empty reprocess list.
FailingForGood(i) ==
  Failing(i) /\ ChildResults[i].reprocess = << >>

\* C25: in an ALL tree, one failing child with an empty reprocess list makes
\* the tree fail with an empty reprocess list, whatever reprocess lists the
\* other failing children, before or after it, returned.
C25_EmptyReprocessFinal ==
  Called("all") /\ (\E i \in 1..Len(ChildResults) : FailingForGood(i)) =>
    /\ tr.res.raised = "none"
    /\ ~Truthy(tr.res.match)
    /\ tr.res.reprocess = << >>

\* The first child failed with a reprocess list, the second one failed
\* without, and the tree returned no reprocess list.
C25_Witness ==
  /\ Called("all")
  /\ Len(ChildResults) = 2
  /\ FailingWithReprocess(1)
  /\ FailingForGood(2)
  /\ tr.res.reprocess = << >>

\* ------------------------------------------------------------------
\* An item of the wrong instrument offered to ALL(instrument, filter)
\* ------------------------------------------------------------------
\* The call was made, with the default scope, on an ALL tree of a leaf that
\* wants instrument 'a' and a leaf on filter, for an item of instrument 'b'.
WrongInstrumentOffered ==
  /\ Called("all")
  /\ Len(tr.called.constraints) = 2
  /\ tr.called.constraints[1].type = "attr"
  /\ tr.called.constraints[1].sources = << "instrument" >>
  /\ tr.called.constraints[1].value = << "a" >>
  /\ tr.called.constraints[2].type = "attr"
  /\ tr.called.constraints[2].name = << "filter" >>
  /\ "instrument" \in DOMAIN tr.item
  /\ tr.item.instrument = << "b" >>

\* C22 as stated: the filter leaf's check_and_set is not invoked for an item
\* of the wrong instrument.
C22_FilterLeafNotReached ==
  WrongInstrumentOffered => \A k \in 1..Len(tr.calls) : tr.calls[k] # 2

\* C22: for an item of the wrong instrument the filter leaf's check_and_set
\* is invoked, once and after the instrument leaf's, but what it returns is
\* dropped: the call fails with an empty reprocess list and the tree keeps
\* its filter leaf as it was.
C22_FilterLeafDiscarded ==
  WrongInstrumentOffered =>
    /\ tr.calls = << 1, 2 >>
    /\ ~Truthy(tr.res.match)
    /\ tr.res.reprocess = << >>
    /\ tr.tree = tr.called

\* The item of the wrong instrument had a filter the filter leaf, not yet
\* locked, would have locked on.
C22_Witness ==
  /\ WrongInstrumentOffered
  /\ "filter" \in DOMAIN tr.item
  /\ tr.called.constraints[2].force_unique
  /\ Truthy(ChildResults[2].match)
  /\ tr.tree.constraints[2].value = None

\* ------------------------------------------------------------------
\* The scope filter on a tree configured with work_over BOTH
\* ------------------------------------------------------------------
\* C30: a tree configured with work_over BOTH, called with any scope,
\* evaluates its children and returns what it returns when called with BOTH.
C30_BothNeverRejected ==
  tr.pc = "done" /\ tr.called.work_over = BOTH =>
    /\ tr.calls = Invoked(tr.called, tr.item, BOTH)
    /\ tr.res = check_and_set(tr.called, tr.item, BOTH)

\* ------------------------------------------------------------------
\* An AttrConstraint that wants its attribute undefined
\* ------------------------------------------------------------------
\* The call failed for good: no constraint, nothing to reprocess, and the
\* caller's leaf is the one it called.
LeafFailedForGood ==
  /\ lf.res.raised = "none"
  /\ ~Truthy(lf.res.match)
  /\ lf.res.reprocess = << >>
  /\ lf.leaf = lf.called

\* C27 as stated: with force_undefined set, the call fails with an empty
\* reprocess list whenever a source of the item carries a valid value.
C27_UndefinedFailsAlways ==
  lf.pc = "done" /\ lf.called.force_undefined /\ LeafGot.found =>
    LeafFailedForGood

\* C27: with force_undefined set and onlyif(item) true, the call fails with
\* an empty reprocess list whenever a source of the item carries a valid
\* value, whatever the pattern, evaluate and the value.
C27_UndefinedFails ==
  /\ lf.pc = "done"
  /\ lf.called.force_undefined
  /\ OnlyIf(lf.called.onlyif, lf.item)
  /\ LeafGot.found
  => LeafFailedForGood

\* A constraint with force_undefined and evaluate, without pattern, was
\* given an item whose source holds a list of two values: no expansion.
C27_Witness ==
  /\ lf.pc = "done"
  /\ lf.called.force_undefined
  /\ lf.called.evaluate
  /\ lf.called.value = None
  /\ OnlyIf(lf.called.onlyif, lf.item)
  /\ LeafGot.found
  /\ LeafGot.value = ListAB
  /\ LeafFailedForGood

\* ------------------------------------------------------------------
\* An AttrConstraint whose onlyif is false for the item
\* ------------------------------------------------------------------
\* C28: when onlyif(item) is false the call succeeds and returns a
\* constraint equal to the one called, whatever the item holds; the
\* reprocess list is one entry holding this item alone, with the scope
\* force_reprocess, when force_reprocess is set, and is empty otherwise.
C28_OnlyIfFalse ==
  lf.pc = "done" /\ ~OnlyIf(lf.called.onlyif, lf.item) =>
    /\ lf.res.raised = "none"
    /\ lf.res.match = lf.called
    /\ IF lf.called.force_reprocess # 0
       THEN /\ Len(lf.res.reprocess) = 1
            /\ lf.res.reprocess[1].items = << lf.item >>
            /\ lf.res.reprocess[1].work_over = lf.called.force_reprocess
       ELSE lf.res.reprocess = << >>

\* A locking constraint with a pattern the item's value does not meet, and
\* with force_reprocess, let the item through unlocked and asked for it to
\* be reprocessed.
C28_Witness ==
  /\ lf.pc = "done"
  /\ ~OnlyIf(lf.called.onlyif, lf.item)
  /\ lf.called.force_unique
  /\ lf.called.force_reprocess = RULES
  /\ lf.called.value = << "a" >>
  /\ LeafGot.found
  /\ LeafGot.value = << "b" >>
  /\ Len(lf.res.reprocess) = 1
  /\ lf.res.match.found_values = {}

\* ------------------------------------------------------------------
\* add without the check of the constraints
\* ------------------------------------------------------------------
\* C23: add(item, check_constraints=False) of an item that is not a member
\* returns normally and leaves the item a member of the association.
C23_UncheckedAddAdds ==
  [][ /\ asn # NoAsn
      /\ last'.op = "add_unchecked"
      /\ ~is_item_member(asn, last'.item)
      => /\ last'.raised = "none"
         /\ \E i \in 1..Len(Members(asn')) : Members(asn')[i] = last'.item ]_vars

\* ------------------------------------------------------------------
\* A value offered to a leaf locked on another value
\* ------------------------------------------------------------------
\* The association made of A, its filter leaf locked on A's filter, was
\* offered another item B that its instrument leaf lets through.
LockedThenOffered ==
  /\ ord.pc = "done"
  /\ ord.rule = "Asn_Lock"
  /\ ord.A # ord.B
  /\ ord.B.instrument = << "a" >>

\* C26: a leaf locked on the value v matches a later value w exactly when w
\* is v up to letter case; what v holds is matched as plain characters.
C26_LockedMatchesSameValue ==
  LockedThenOffered =>
    (ord.secondAB <=> SameIgnoringCase(ord.B.filter, ord.A.filter))

\* ------------------------------------------------------------------
\* check_and_set on one SimpleConstraint
\* ------------------------------------------------------------------
\* Rows with both attributes, the values of a SimpleConstraint.
SimpleItems ==
  { [instrument |-> i, filter |-> f] :
      i \in InstrumentValues, f \in { << "a" >>, << "b" >> } }

\* SimpleConstraints as rules write them.
SimpleInputs ==
  { [SimpleConstraint(<< "simple" >>, value, force_unique, force_reprocess)
       EXCEPT !.test = test] :
      value \in { NoneObj } \cup SimpleItems,
      force_unique \in BOOLEAN,
      force_reprocess \in { 0, RULES },
      test \in { "eq", "same_instrument" } }

InitSimple ==
  /\ asn = NoAsn
  /\ sequence = 0
  /\ last = NoLast
  /\ ord = NoOrd
  /\ tr = NoTr
  /\ mt = Off
  /\ lf = Off
  /\ reg = Off
  /\ wl = Off
  /\ ix = Off
  /\ hp = Off
  /\ \E c \in SimpleInputs :
        sc = [pc |-> "ready", first |-> c, constraint |-> c, called |-> c,
              item |-> << >>, res |-> Result(NoMatch, << >>), checks |-> 0]

\* match, reprocess = constraint.check_and_set(item); a caller that got a
\* constraint back goes on with it.
SimpleCheck(item) ==
  /\ sc.pc # "off"
  /\ sc.checks < MaxChecks
  /\ \E res \in { Simple_check_and_set(sc.constraint, item) } :
        sc' = [sc EXCEPT !.pc = "done",
                 !.constraint = IF Truthy(res.match) THEN res.match ELSE @,
                 !.called = sc.constraint, !.item = item, !.res = res,
                 !.checks = @ + 1]
  /\ UNCHANGED << asn, sequence, last, ord, tr, mt, lf, reg, wl, ix, hp >>

NextSimple ==
  \E item \in SimpleItems : SimpleCheck(item)

SpecSimple ==
  InitSimple /\ [][NextSimple]_vars

\* The call was made on a force_unique constraint whose value was set.
SimpleLockedCalled ==
  /\ sc.pc = "done"
  /\ sc.called.force_unique
  /\ sc.called.value # NoneObj

\* A failed call returns False and the caller's constraint is as it was.
SimpleFailureChangesNothing ==
  sc.pc = "done" /\ ~Truthy(sc.res.match) =>
    /\ sc.res.match = NoMatch
    /\ sc.constraint = sc.called

\* C29 as stated: whatever the test function, a successful call on a
\* force_unique constraint whose value is set returns a constraint with that
\* same value; a failed call returns False and changes nothing.
C29_ValueStaysAnyTest ==
  /\ SimpleLockedCalled /\ Truthy(sc.res.match) =>
       sc.res.match.value = sc.called.value
  /\ SimpleFailureChangesNothing

\* C29: with the default test (equality), a successful call on a
\* force_unique constraint whose value is set returns a constraint with that
\* same value; a failed call returns False and changes nothing.
C29_ValueStays ==
  /\ SimpleLockedCalled /\ sc.called.test = "eq" /\ Truthy(sc.res.match) =>
       sc.res.match.value = sc.called.value
  /\ SimpleFailureChangesNothing

\* A constraint that started without value took the value of a first row,
\* and a later call on it succeeded.
C29_Witness ==
  /\ SimpleLockedCalled
  /\ sc.first.value = NoneObj
  /\ sc.called.test = "eq"
  /\ sc.checks >= 2
  /\ Truthy(sc.res.match)
  /\ sc.res.match.value = sc.item

\* ------------------------------------------------------------------
\* Indexing a constraint tree by name
\* ------------------------------------------------------------------
\* What tree[key] gives: the constraint returned, or the exception raised.
Returned(constraint) ==
  [constraint |-> constraint, raised |-> "none"]

NotReturned(exc) ==
  [constraint |-> NoMatch, raised |-> exc]

RECURSIVE GetItemLoop_leaves_only(_, _, _)
RECURSIVE GetItemLoop(_, _, _)

\* constraint[key] on a child: a tree is searched, a leaf cannot be
\* subscripted (TypeError).
Subscript(constraint, key) ==
  IF constraint.type = "tree" THEN GetItemLoop(constraint.constraints, key, 1)
  ELSE NotReturned("TypeError")

\* The loop of __getitem__ that compares the names of leaves only.
GetItemLoop_leaves_only(constraints, key, i) ==
  IF i > Len(constraints) THEN NotReturned("KeyError")
  ELSE IF /\ constraints[i].type # "tree"
          /\ constraints[i].name # None
          /\ constraints[i].name = key
  THEN Returned(constraints[i])
  ELSE LET Tried(found) ==
             IF found.raised \in { "KeyError", "TypeError" }
             THEN GetItemLoop_leaves_only(constraints, key, i + 1)
             ELSE found
       IN With(IF constraints[i].type = "tree"
               THEN GetItemLoop_leaves_only(constraints[i].constraints, key, 1)
               ELSE NotReturned("TypeError"), Tried)

\* Constraint.__getitem__, the loop over self.constraints from child i on:
\* the child itself if it has the name, else what the child gives when
\* subscripted, else the next child; KeyError after the last one.
GetItemLoop(constraints, key, i) ==
  IF i > Len(constraints) THEN NotReturned("KeyError")
  ELSE IF constraints[i].name # None /\ constraints[i].name = key
  THEN Returned(constraints[i])
  ELSE LET Tried(found) ==
             IF found.raised \in { "KeyError", "TypeError" }
             THEN GetItemLoop(constraints, key, i + 1)
             ELSE found
       IN With(Subscript(constraints[i], key), Tried)

\* Constraint.__getitem__(key)
getitem(c, key) ==
  GetItemLoop(c.constraints, key, 1)

\* Children of the trees that are indexed: named leaves, two of them with
\* the same name, an unnamed leaf, a named tree, a tree with the name of a
\* leaf, and an unnamed tree around a leaf with the name of a tree.
IndexChildren ==
  { AttrConstraint(<< "filter" >>, << "filter" >>, None, TRUE, TRUE),
    AttrConstraint(<< "filter" >>, << "filter" >>, << "b" >>, FALSE, TRUE),
    AttrConstraint(<< "instrument" >>, << "instrument" >>, << "a" >>, FALSE, TRUE),
    ConstraintTrue,
    Constraint(
      << AttrConstraint(<< "instrument" >>, << "instrument" >>, << "b" >>, FALSE, TRUE),
         AttrConstraint(<< "filter" >>, << "filter" >>, << "a" >>, FALSE, TRUE) >>,
      "any", << "nested" >>, BOTH),
    Constraint(
      << AttrConstraint(<< "instrument" >>, << "filter" >>, << "a" >>, FALSE, TRUE) >>,
      "all", << "filter" >>, BOTH),
    Constraint(
      << AttrConstraint(<< "nested" >>, << "filter" >>, None, FALSE, TRUE) >>,
      "all", None, BOTH) }

RECURSIVE IndexChildSeqs(_)
IndexChildSeqs(n) ==
  IF n = 0 THEN { << >> }
  ELSE LET shorter == IndexChildSeqs(n - 1)
       IN shorter \cup { Append(cs, c) : cs \in { x \in shorter : Len(x) = n - 1 },
                                         c \in IndexChildren }

IndexTrees ==
  { Constraint(cs, "all", None, BOTH) : cs \in IndexChildSeqs(MaxChildren) }

IndexKeys ==
  { << "filter" >>, << "instrument" >>, << "nested" >>, << "absent" >> }

InitIndex ==
  /\ asn = NoAsn
  /\ sequence = 0
  /\ last = NoLast
  /\ ord = NoOrd
  /\ tr = NoTr
  /\ mt = Off
  /\ lf = Off
  /\ reg = Off
  /\ wl = Off
  /\ sc = Off
  /\ hp = Off
  /\ \E t \in IndexTrees :
        ix = [pc |-> "ready", first |-> t, tree |-> t, key |-> None,
              res |-> NotReturned("none")]

\* found = tree[key]
Index(key) ==
  /\ ix.pc # "off"
  /\ \E res \in { getitem(ix.tree, key) } :
        ix' = [ix EXCEPT !.pc = "done", !.key = key, !.res = res]
  /\ UNCHANGED << asn, sequence, last, ord, tr, mt, lf, reg, wl, sc, hp >>

NextIndex ==
  \E key \in IndexKeys : Index(key)

SpecIndex ==
  InitIndex /\ [][NextIndex]_vars

\* The constraints below a tree, each one before the ones below it,
\* children in order.
RECURSIVE Descendants(_)
Descendants(c) ==
  IF c.type # "tree" THEN << >>
  ELSE Chain([i \in 1..Len(c.constraints) |->
                << c.constraints[i] >> \o Descendants(c.constraints[i])])

\* tree[key] gave the first constraint of the list that has the name, and
\* KeyError when none has it; the tree is as it was.
FirstNamed(list) ==
  /\ IF \E k \in 1..Len(list) : list[k].name = ix.key
     THEN /\ ix.res.raised = "none"
          /\ ix.res.constraint =
               list[CHOOSE k \in 1..Len(list) :
                      /\ list[k].name = ix.key
                      /\ \A h \in 1..(k - 1) : list[h].name # ix.key]
     ELSE ix.res.raised = "KeyError"
  /\ ix.tree = ix.first

\* C21 as stated: tree[name] is the first leaf, in depth-first order, that
\* has the name, and KeyError when no leaf has it.
C21_FirstLeafNamed ==
  ix.pc = "done" => FirstNamed(Flatten(ix.tree))

\* C21: tree[name] is the first constraint below the tree, leaf or tree,
\* that has the name, a tree coming before what is below it, and KeyError
\* when no constraint below the tree has the name; the tree is not changed.
C21_FirstConstraintNamed ==
  ix.pc = "done" => FirstNamed(Descendants(ix.tree))

\* The name was that of a tree and of a leaf after it: the tree came back.
C21_Witness ==
  /\ ix.pc = "done"
  /\ ix.key = << "filter" >>
  /\ Len(ix.tree.constraints) = 2
  /\ ix.tree.constraints[1].type = "tree"
  /\ ix.tree.constraints[1].name = << "filter" >>
  /\ ix.tree.constraints[2].type = "attr"
  /\ ix.tree.constraints[2].name = << "filter" >>
  /\ ix.res.constraint = ix.tree.constraints[1]

\* ------------------------------------------------------------------
\* Constraint objects by identity
\* ------------------------------------------------------------------
\* hp.heap holds the constraint objects, an object's identity being its
\* place in the sequence. An object has its attributes (obj), the objects
\* it refers to (refs: the children of a Constraint, the found_values set
\* of an AttrConstraint) and, for a set, its elements.
Obj(kind, obj, refs, elems) ==
  [kind |-> kind, obj |-> obj, refs |-> refs, elems |-> elems]

\* A reference to an object, as returned in place of a constraint.
Ref(id) ==
  [ref |-> id]

Allocated(heap, ref) ==
  [heap |-> heap, ref |-> ref]

\* The constraint an object stands for, with all it refers to.
RECURSIVE Deref(_, _)
Deref(heap, ref) ==
  LET Value(cell) ==
        IF cell.kind = "tree"
        THEN [cell.obj EXCEPT !.constraints =
                [i \in 1..Len(cell.refs) |-> Deref(heap, cell.refs[i])]]
        ELSE IF cell.kind = "attr"
        THEN [cell.obj EXCEPT !.found_values = heap[cell.refs[1]].elems]
        ELSE cell.obj
  IN Value(heap[ref])

\* The construction of a constraint: new objects for it and for all below
\* it, the children of a tree first.
RECURSIVE New(_, _)
RECURSIVE NewList(_, _, _)
NewList(heap, values, refs) ==
  IF Len(refs) = Len(values) THEN [heap |-> heap, refs |-> refs]
  ELSE With(New(heap, values[Len(refs) + 1]),
            LAMBDA made : NewList(made.heap, values, Append(refs, made.ref)))

New(heap, c) ==
  LET WithSet(h) ==
        Allocated(Append(h, Obj("attr", [c EXCEPT !.found_values = {}],
                                << Len(h) >>, {})),
                  Len(h) + 1)
      WithChildren(made) ==
        Allocated(Append(made.heap, Obj("tree", [c EXCEPT !.constraints = << >>],
                                        made.refs, {})),
                  Len(made.heap) + 1)
  IN IF c.type = "attr"
     THEN With(Append(heap, Obj("set", NoMatch, << >>, c.found_values)), WithSet)
     ELSE IF c.type = "tree"
     THEN With(NewList(heap, c.constraints, << >>), WithChildren)
     ELSE Allocated(Append(heap, Obj(c.type, c, << >>, {})), Len(heap) + 1)

\* copy.copy in place of deepcopy: a new object that refers to the objects
\* the original refers to.
deepcopy_shallow(heap, ref) ==
  Allocated(Append(heap, heap[ref]), Len(heap) + 1)

\* deepcopy(constraint): new objects, equal in value, for the constraint
\* and for all it refers to.
deepcopy(heap, ref) ==
  New(heap, Deref(heap, ref))

\* deepcopy(init.constraints): a new list of copies of the children.
RECURSIVE deepcopy_list(_, _, _)
deepcopy_list(heap, refs, copies) ==
  IF Len(copies) = Len(refs) THEN [heap |-> heap, refs |-> copies]
  ELSE With(deepcopy(heap, refs[Len(copies) + 1]),
            LAMBDA cp : deepcopy_list(cp.heap, refs, Append(copies, cp.ref)))

\* Result of a check_and_set call on an object: the heap after the call
\* and (match, reprocess), match a reference or False, or an exception.
ObjResult(heap, match, reprocess, raised) ==
  [heap |-> heap, match |-> match, reprocess |-> reprocess, raised |-> raised]

\* ConstraintTrue.check_and_set: return self, []
True_check_and_set_obj(heap, self, item) ==
  ObjResult(heap, Ref(self), << >>, "none")

\* The assignments of AttrConstraint.check_and_set, all made through
\* match: match.value, match.sources and match.force_unique are rebound,
\* the set match.found_values is added to.
Assign(heap, match, new) ==
  [heap EXCEPT ![match].obj = [new EXCEPT !.found_values = {}],
               ![heap[match].refs[1]].elems = new.found_values]

\* AttrConstraint.check_and_set(item) on the object self: match is a deep
\* copy of self from the first statement on.
Attr_check_and_set_obj(heap, self, item) ==
  LET Checked(cp, r) ==
        IF Truthy(r.match)
        THEN ObjResult(Assign(cp.heap, cp.ref, r.match), Ref(cp.ref),
                       r.reprocess, r.raised)
        ELSE ObjResult(cp.heap, NoMatch, r.reprocess, r.raised)
      Copied(cp) ==
        With(Attr_check_and_set(Deref(cp.heap, cp.ref), item),
             LAMBDA r : Checked(cp, r))
  IN With(deepcopy(heap, self), Copied)

\* SimpleConstraint.check_and_set(item) on the object self: match is self,
\* or a deep copy of self with the value set when force_unique is set.
Simple_check_and_set_obj(heap, self, item) ==
  LET SetValue(cp, r) ==
        ObjResult([cp.heap EXCEPT ![cp.ref].obj = r.match], Ref(cp.ref),
                  r.reprocess, r.raised)
      Checked(r) ==
        IF Truthy(r.match) /\ heap[self].obj.force_unique
        THEN With(deepcopy(heap, self), LAMBDA cp : SetValue(cp, r))
        ELSE ObjResult(heap, IF Truthy(r.match) THEN Ref(self) ELSE NoMatch,
                       r.reprocess, r.raised)
  IN With(Simple_check_and_set(heap[self].obj, item), Checked)

\* new_constraint.constraints[idx] = constraint for the positive ones.
Replaced(refs, constraints) ==
  [idx \in 1..Len(refs) |->
     IF idx <= Len(constraints) /\ Truthy(constraints[idx])
     THEN constraints[idx].ref ELSE refs[idx]]

RECURSIVE check_and_set_obj(_, _, _, _)

\* [constraint.check_and_set(item) for constraint in self.constraints] on
\* the objects refs, the results so far given; an exception ends it.
RECURSIVE CallChildren_obj(_, _, _, _)
CallChildren_obj(heap, refs, item, results) ==
  IF \/ Len(results) = Len(refs)
     \/ (results # << >> /\ results[Len(results)].raised # "none")
  THEN [heap |-> heap, results |-> results]
  ELSE With(check_and_set_obj(heap, refs[Len(results) + 1], item, BOTH),
            LAMBDA r : CallChildren_obj(r.heap, refs, item,
                         Append(results, [match |-> r.match,
                                          reprocess |-> r.reprocess,
                                          raised |-> r.raised])))

\* check_and_set on the object self. For a tree: the scope filter, the
\* calls on the children, the reduction, and for a positive result
\* Constraint(self), which copies the children, with the positive results
\* put in place.
check_and_set_obj(heap, self, item, work_over) ==
  LET Built(called, red, cps) ==
        ObjResult(Append(cps.heap,
                         Obj("tree", heap[self].obj,
                             Replaced(cps.refs, red.constraints), {})),
                  Ref(Len(cps.heap) + 1), Chain(red.reprocess), "none")
      Reduced(called, red) ==
        IF red.raised # "none"
        THEN ObjResult(called.heap, NoMatch, << >>, red.raised)
        ELSE IF ~red.ok
        THEN ObjResult(called.heap, NoMatch, Chain(red.reprocess), "none")
        ELSE With(deepcopy_list(called.heap, heap[self].refs, << >>),
                  LAMBDA cps : Built(called, red, cps))
      Collected(called) ==
        IF called.results # << >>
           /\ called.results[Len(called.results)].raised # "none"
        THEN ObjResult(called.heap, NoMatch, << >>,
                       called.results[Len(called.results)].raised)
        ELSE With(Reduce(heap[self].obj.reduce, called.results),
                  LAMBDA red : Reduced(called, red))
  IN IF heap[self].kind = "true" THEN True_check_and_set_obj(heap, self, item)
     ELSE IF heap[self].kind = "attr" THEN Attr_check_and_set_obj(heap, self, item)
     ELSE IF heap[self].kind = "simple" THEN Simple_check_and_set_obj(heap, self, item)
     ELSE IF ~ScopeAdmits(heap[self].obj, work_over)
     THEN ObjResult(heap, NoMatch, << >>, "none")
     ELSE With(CallChildren_obj(heap, heap[self].refs, item, << >>), Collected)

\* ------------------------------------------------------------------
\* Two associations of one rule, their constraints held by identity
\* ------------------------------------------------------------------
\* a rule that locks on the first row it is shown.
Asn_First ==
  [name |-> "Asn_First", kind |-> "products",
   constraints |-> Constraint(
     << SimpleConstraint(<< "first" >>, NoneObj, TRUE, 0) >>,
     "all", None, BOTH)]

HeapRules ==
  { Asn_Lock, Asn_Collect, Asn_Any, Asn_Again, Asn_First }

HeapItems ==
  { [instrument |-> << "a" >>, filter |-> << "a" >>],
    [instrument |-> << "a" >>, filter |-> << "b" >>],
    [instrument |-> << "b" >>, filter |-> << "a" >>],
    [instrument |-> << "a" >>],
    [filter |-> << "b" >>] }

\* The objects that exist before any association does: GLOBAL_CONSTRAINT,
\* the ConstraintTrue of the class Association.
GLOBAL_CONSTRAINT ==
  1

ClassObjects ==
  << Obj("true", ConstraintTrue, << >>, {}) >>

\* A rule's __init__ and Association.__init__ on the heap. The first
\* constraint of the rule's list is a prototype made once for all
\* associations (as CONSTRAINT_BASE in Asn_Image is), the others are made
\* by __init__; the rule's tree goes in a list with GLOBAL_CONSTRAINT.
NewAssociation_obj(heap, rule, prototype) ==
  LET Rooted(h) ==
        Allocated(Append(h, Obj("tree", Constraint(<< >>, "all", None, BOTH),
                                << Len(h), GLOBAL_CONSTRAINT >>, {})),
                  Len(h) + 1)
      Listed(own) ==
        Rooted(Append(own.heap,
                      Obj("tree", [rule.constraints EXCEPT !.constraints = << >>],
                          << prototype >> \o own.refs, {})))
  IN With(NewList(heap, Tail(rule.constraints.constraints), << >>), Listed)

InitHeap ==
  /\ asn = NoAsn
  /\ sequence = 0
  /\ last = NoLast
  /\ ord = NoOrd
  /\ tr = Off
  /\ mt = Off
  /\ lf = Off
  /\ reg = Off
  /\ wl = Off
  /\ ix = Off
  /\ sc = Off
  /\ \E rule \in HeapRules :
       \E prototype \in { New(ClassObjects, rule.constraints.constraints[1]) } :
         \E a \in { NewAssociation_obj(prototype.heap, rule, prototype.ref) } :
           \E b \in { NewAssociation_obj(a.heap, rule, prototype.ref) } :
             hp = [pc |-> "ready", heap |-> b.heap,
                   constraints |-> << a.ref, b.ref >>,
                   prototype |-> prototype.ref,
                   who |-> 0, called |-> 0, item |-> << >>,
                   matched |-> FALSE, checks |-> 0]

\* Association.check_and_set_constraints(item) of association who:
\* constraints, reprocess = self.constraints.check_and_set(item), and
\* self.constraints = constraints when it is positive.
HeapCheck(who, item) ==
  /\ hp.pc # "off"
  /\ hp.checks < MaxChecks
  /\ \E r \in { check_and_set_obj(hp.heap, hp.constraints[who], item, BOTH) } :
        hp' = [hp EXCEPT !.pc = "done", !.heap = r.heap,
                         !.constraints[who] =
                            IF Truthy(r.match) THEN r.match.ref ELSE @,
                         !.who = who, !.called = hp.constraints[who],
                         !.item = item, !.matched = Truthy(r.match),
                         !.checks = @ + 1]
  /\ UNCHANGED << asn, sequence, last, ord, tr, mt, lf, reg, wl, ix, sc >>

NextHeap ==
  \E who \in {1, 2}, item \in HeapItems : HeapCheck(who, item)

SpecHeap ==
  InitHeap /\ [][NextHeap]_vars

\* The constraints an association goes on with are the ones check_and_set
\* gives for the constraints it had, as values.
ObjectsAgree ==
  (hp.pc = "done" /\ hp.matched) =>
     Deref(hp.heap, hp.constraints[hp.who]) =
        check_and_set(Deref(hp.heap, hp.called), hp.item, BOTH).match

\* C24: no check_and_set call modifies the constraint object it is called
\* on or any object below it: every object that exists when the call is
\* made is unchanged after it, so the constraints the call was made on,
\* the constraints of the other association and the prototype and class
\* constraints they share are as they were.
C24_NoObjectModified ==
  [][hp.pc # "off" =>
       /\ Len(hp'.heap) >= Len(hp.heap)
       /\ \A id \in 1..Len(hp.heap) : hp'.heap[id] = hp.heap[id]
       /\ \A ref \in { hp.constraints[1], hp.constraints[2], hp.prototype,
                       GLOBAL_CONSTRAINT } :
             Deref(hp'.heap, ref) = Deref(hp.heap, ref)]_vars

\* One association was narrowed on a copy of the prototype, which had
\* found no value before and has found none after; the other association
\* still holds the prototype itself.
C24_Witness ==
  /\ hp.pc = "done"
  /\ hp.matched
  /\ Deref(hp.heap, hp.constraints[hp.who]) # Deref(hp.heap, hp.called)
  /\ hp.heap[hp.prototype].kind = "attr"
  /\ Deref(hp.heap, hp.prototype).found_values = {}
  /\ hp.heap[hp.heap[hp.constraints[hp.who]].refs[1]].refs[1] # hp.prototype
  /\ Deref(hp.heap, hp.heap[hp.heap[hp.constraints[hp.who]].refs[1]].refs[1]).found_values # {}
  /\ hp.heap[hp.heap[hp.constraints[3 - hp.who]].refs[1]].refs[1] = hp.prototype

====
